---- MODULE Spec2Model ----
(***************************************************************************)
(* Model of bayue48/pia-scrap.                                             *)
(*                                                                         *)
(*   Spec           api.py: request_with_retries and the NovelpiaClient    *)
(*                  operations that call it (token refresh included),      *)
(*                  with the delays slept before each request.             *)
(*   SpecFinalizer  the de-dup / sort / cap block of main() in pia.py and  *)
(*                  novelpia_epub.py, applied to arbitrary chapter lists.  *)
(*   SpecBrowser    pia.py: collect_chapters_from_section (Strategy A),    *)
(*                  walk_next_chapters (Strategy B) and main()'s           *)
(*                  orchestration of both up to the final chapter list.    *)
(*   SpecWalk       pia.py: walk_next_chapters alone, on next-link graphs  *)
(*                  of any shape and any length.                           *)
(*   SpecJwt        api.py: looks_like_jwt applied to arbitrary strings.   *)
(*   SpecExtract    api.py: extract_t_token applied to ticket payloads of  *)
(*                  every shape.                                           *)
(*   SpecBuild      api.py: the cap of fetch_and_build and the episode     *)
(*                  loop of EpubBuilder.build, up to the written document  *)
(*                  or the exception that ends it.                         *)
(*   SpecGoto       pia.py: goto_page called twice with the same target.   *)
(*   SpecLog        api.py: what one attempt of request_with_retries       *)
(*                  prints about its request and its response.             *)
(*   SpecStartup    api.py: main() from the stored configuration to the    *)
(*                  exit code of the run, with the session file and the    *)
(*                  token the client holds.                                *)
(***************************************************************************)
EXTENDS Integers, Sequences, FiniteSets, TLC

VARIABLES
    \* ---- api.py -------------------------------------------------------
    pc,            \* position of the API client: idle / attempt / refresh / replay / done
    op,            \* the client operation in progress
    login_at,      \* client.tokens.login_at (tokens are numbered 1, 2, ...; 0: None
                   \* or the empty string)
    headersTok,    \* the login-at value inside the `headers` argument (0: none)
    allow_refresh, \* request_with_retries(allow_refresh=...)
    max_retries,   \* request_with_retries(max_retries=...)
    attempt,       \* local `attempt`
    last_exc,      \* local `last_exc`: 0 is None, k the exception of attempt k
    r,             \* local `r`: the response the call currently holds
    rAttempt,      \* `attempt` of the nested call made by refresh()
    outcome,       \* how the call ended: none / returned / raised
    nSent,         \* requests sent by this call (first sends and replays)
    nResp,         \* responses received by this call
    n5xx,          \* responses with status >= 500 received by this call
    nExc,          \* attempts of this call whose send raised RequestException
    nRefresh,      \* invocations of refresh_fn by this call
    lastSend,      \* the request sent last: kind, token carried, login_at then
    stale,         \* tokens reported expired with no successful refresh since
    throttle,      \* self.throttle
    slept,         \* what the client did last before its next request:
                   \* throttle (the delay plus jitter) / backoff / none
    \* ---- finalizer ----------------------------------------------------
    fin_in,        \* chapter list handed to the finalizer
    fin_cap,       \* args.max_chapters
    fin_out,       \* the finalizer's result
    fin_pc,        \* input / done
    \* ---- pia.py: the site and the browser page ---------------------------
    cap,           \* args.max_chapters
    total,         \* the item count the listing header shows (0: none)
    numPages,      \* listing pages the site has
    arrowAlways,   \* the next-group control stays in the DOM on the last group
    loc,           \* where the page is: 0 the novel's listing, else a URL
    uiPage,        \* the listing page the site shows
    uiGroup,       \* the group of page numbers the pagination bar shows
    loggedOut,     \* the site shows its Sign In affordance
    faults,        \* navigations / waits that timed out so far
    logouts,       \* session expiries so far
    \* ---- pia.py: main, collect_chapters_from_section, walk_next_chapters -
    bpc,           \* start / A_page / A_row / A_done / B_step / finalize / final / crashed
    cur,           \* `cur` of collect_chapters_from_section
    page_iter,     \* iterations of `for _ in range(safety_pages)` started
    items_tried,   \* `items_tried`
    limit_on_page, \* `limit_on_page`
    i,             \* row index of the inner loop
    chapters,      \* `chapters` (of Strategy A, then of main)
    walk_url,      \* walk_next_chapters: `url`
    walk_idx,      \* walk_next_chapters: `idx`
    walk_steps,    \* walk_next_chapters: iterations of the for loop started
    walked,        \* walk_next_chapters: `chapters`
    final,         \* the chapter list after the finalizer block
    strategy,      \* which strategy produced main's chapters: none / A / B
    capOutcome,    \* how Strategy A returned: cap not reached by its row attempts
                   \* ("none"), reached with every attempt adding a chapter
                   \* ("full"), or reached with fewer chapters than attempts ("short")
    advAfterCap,   \* an advance navigation was issued with the cap reached
    rowShown,      \* the listing page shown when the last row of this page pass
                   \* was clicked (0: no row clicked yet)
    processed,     \* per page number: page passes of this traversal that went
                   \* through its rows (counted up to 2)
    lastGoto,      \* the last goto_page(cur + 1) of this traversal: what it returned
    reauth_run,    \* row passes in a row that re-authenticated (counted up to 2)
    primary,       \* `primary` of collect_chapters: what Strategy A returned
    walkerRan,     \* walk_next_chapters was called
    \* ---- pia.py: walk_next_chapters alone ------------------------------
    wn_pc,         \* off / loop / returned / raised
    wn_cap,        \* args.max_chapters
    wn_max,        \* the argument `max_steps`
    wn_button,     \* the site's Next control is a button without an href
    wn_url,        \* local `url` (0: None)
    wn_idx,        \* local `idx`
    wn_steps,      \* iterations of the for loop started
    wn_seen,       \* local `seen`
    wn_chapters,   \* local `chapters`, the list returned
    wn_known,      \* references the site has shown so far: 1..wn_known
    wn_loads,      \* per reference: how often the browser loaded it (up to 2)
    \* ---- api.py: looks_like_jwt ----------------------------------------
    jwt_in,        \* the argument `token`, a sequence of character classes
    jwt_out,       \* the value returned
    jwt_pc,        \* off / input / done
    \* ---- api.py: extract_t_token ---------------------------------------
    ext_in,        \* the argument `tdata`
    ext_out,       \* what the call produced: raised, or (token, direct url)
    ext_pc,        \* off / input / done
    \* ---- api.py: EpubBuilder.build -------------------------------------
    eb_pc,         \* off / list / loop / done (write_epub returned) / aborted
                   \* (an exception left build)
    eb_len,        \* len of the `list` the episode-list request returned
    eb_cap,        \* args.max_chapters
    eb_n,          \* len(episodes), the list handed to build
    eb_i,          \* the loop index `i` of the next episode
    eb_toc,        \* `toc`: the chapters added, each with its episode and body
    eb_calls,      \* client.episode_ticket invocations per episode
    eb_log,        \* per episode: what its ticket and content requests brought
    \* ---- pia.py: goto_page called twice --------------------------------
    gp_pc,         \* off / ready / once / twice
    gp_target,     \* the argument `target` of both calls
    gp_first,      \* what the first call did: ok, clicks made
    gp_second,     \* what the second call did
    \* ---- api.py: the diagnostic log of one attempt ----------------------
    log_pc,        \* off / start / sent / done
    http_log,      \* global HTTP_LOG
    log_part,      \* which of headers / params / json / data the request carries
    log_req,       \* the value of that request part
    log_body,      \* the JSON body of the response
    log_lines,     \* what was printed: the part, the value shown, filtered or not
    \* ---- api.py: main() -------------------------------------------------
    st_pc,         \* off / start / login / session / exited
    cfg_login_at,  \* cfg.get("login_at"): absent / blank / value
    cfg_userkey,   \* cfg.get("userkey"): absent / blank / value
    arg_email,     \* args.email: absent / empty / value
    arg_password,  \* args.password: absent / empty / value
    st_requests,   \* network requests issued so far in the run
    st_exit,       \* the exit code, -1 while the run goes on
    st_file,       \* the persisted session file: login_at and userkey (0: none)
    st_tok,        \* client.tokens.login_at (0: None)
    st_key,        \* the USERKEY cookie of the client's session (0: none)
    st_logins,     \* requests sent by client.login()
    st_first,      \* the first request after start-up that is no login request:
                   \* the token it carried and the session file at that moment
    st_refreshed   \* refresh() has replaced the client's token in this run

apiVars == <<pc, op, login_at, headersTok, allow_refresh, max_retries, attempt,
             last_exc, r, rAttempt, outcome, nSent, nResp, n5xx, nExc,
             nRefresh, lastSend, stale, throttle, slept>>
finVars == <<fin_in, fin_cap, fin_out, fin_pc>>
siteVars == <<cap, total, numPages, arrowAlways>>
pageVars == <<loc, uiPage, uiGroup, loggedOut, faults, logouts>>
stratAVars == <<cur, page_iter, items_tried, limit_on_page, i>>
walkVars == <<walk_url, walk_idx, walk_steps, walked>>
travGhosts == <<rowShown, processed, lastGoto, reauth_run, primary>>
brVars == <<siteVars, pageVars, bpc, stratAVars, chapters, walkVars, final,
            strategy, capOutcome, advAfterCap, travGhosts, walkerRan>>
wnVars == <<wn_pc, wn_cap, wn_max, wn_button, wn_url, wn_idx, wn_steps, wn_seen,
            wn_chapters, wn_known, wn_loads>>
jwtVars == <<jwt_in, jwt_out, jwt_pc>>
extVars == <<ext_in, ext_out, ext_pc>>
buildVars == <<eb_pc, eb_len, eb_cap, eb_n, eb_i, eb_toc, eb_calls, eb_log>>
gotoVars == <<gp_pc, gp_target, gp_first, gp_second>>
logVars == <<log_pc, http_log, log_part, log_req, log_body, log_lines>>
startVars == <<st_pc, cfg_login_at, cfg_userkey, arg_email, arg_password,
               st_requests, st_exit, st_file, st_tok, st_key, st_logins,
               st_first, st_refreshed>>
auxVars == <<jwtVars, extVars, buildVars, gotoVars, logVars, startVars, wnVars>>
vars == <<apiVars, finVars, brVars, auxVars>>

\* what the actions of one component leave alone
jwtOthers == <<apiVars, finVars, brVars, extVars, buildVars, gotoVars, logVars,
    startVars, wnVars>>
extOthers == <<apiVars, finVars, brVars, jwtVars, buildVars, gotoVars, logVars,
    startVars, wnVars>>
buildOthers == <<apiVars, finVars, brVars, jwtVars, extVars, gotoVars, logVars,
    startVars, wnVars>>
gotoOthers == <<apiVars, finVars, jwtVars, extVars, buildVars, logVars,
    startVars, wnVars>>
logOthers == <<apiVars, finVars, brVars, jwtVars, extVars, buildVars, gotoVars,
    startVars, wnVars>>
startOthers == <<apiVars, finVars, brVars, jwtVars, extVars, buildVars, gotoVars,
    logVars, wnVars>>
wnOthers == <<apiVars, finVars, brVars, jwtVars, extVars, buildVars, gotoVars,
    logVars, startVars>>

(***************************************************************************)
(* Bounds of the model.                                                    *)
(***************************************************************************)
MaxRetriesArg == 4      \* largest max_retries of a direct call
MaxTokens == 3          \* tokens the server hands out in one run
NumViewer == 3          \* distinct /viewer/ references the site can show
MaxFinLen == 5          \* longest chapter list handed to the finalizer alone
MaxCap == 3             \* largest --max-chapters
MaxPages == 3           \* listing pages of the largest site
RowsPerPage == 2        \* rows the site renders on one listing page
GroupSize == 2          \* page numbers the pagination bar shows at once
MaxFaults == 1          \* timeouts injected in one run
MaxLogouts == 1         \* session expiries in one run
MaxStrLen == 5          \* longest string handed to looks_like_jwt alone
MaxEpisodes == 5        \* longest episode list handed to EpubBuilder.build
MaxRequests == 4        \* requests of one run that are counted

(***************************************************************************)
(* api.py: request_with_retries                                            *)
(***************************************************************************)
Statuses == {200, 401, 500}

Responses == [status : Statuses, expired : BOOLEAN]

NoResp == [id |-> 0, status |-> 0, expired |-> FALSE]

NoSend == [kind |-> "none", tok |-> 0, cur |-> 0, stale |-> FALSE, op |-> "none",
           after |-> "none", expiredReply |-> FALSE]

Ops == {"me", "novel", "episode_list", "episode_ticket", "episode_content"}

\* max_retries each client operation passes (default 3).
OpMaxRetries(o) == IF o = "episode_ticket" THEN 4 ELSE 3

\* every request made with refresh handling on
OpAllowRefresh_all(o) == TRUE

\* allow_refresh=True, refresh_fn=self.refresh: passed by me, novel,
\* episode_list and episode_ticket, not by episode_content, login and refresh
OpAllowRefresh(o) == o \in {"me", "novel", "episode_list", "episode_ticket"}

\* merge_login_at({}, login_at): the header is set when login_at is truthy.
merge_login_at(tok) == tok

\* headers= of each operation; episode_content sends params only.
OpHeaders(o, tok) == IF o = "episode_content" THEN 0 ELSE merge_login_at(tok)

\* max_retries=2 in login() and refresh()
RefreshMaxRetries == 2

\* variants of the two retry tests with a changed comparison
ShouldRetry5xx_strict(status, att, maxr) == status > 500 /\ att < maxr

ShouldRetry5xx_early(status, att, maxr) == status >= 500 /\ att + 1 < maxr

ShouldRetryExc_early(att, maxr) == att + 1 < maxr

\* `if r.status_code >= 500 and attempt < max_retries: ... continue`
ShouldRetry5xx(status, att, maxr) == status >= 500 /\ att < maxr

\* `if attempt < max_retries: ... continue` of the except branch
ShouldRetryExc(att, maxr) == att < maxr

\* `continue`: the while test, then `if last_exc: raise last_exc` / `return r`
ContinueOutcome(att, maxr, lexc) ==
    IF att < maxr THEN "none"
    ELSE IF lexc # 0 THEN "raised" ELSE "returned"

\* a variant raising an earlier attempt's exception after a final response
OutcomeAfterResponse_raise(status, att, maxr, lexc) ==
    IF ShouldRetry5xx(status, att, maxr)
    THEN ContinueOutcome(att, maxr, lexc)
    ELSE IF lexc # 0 THEN "raised" ELSE "returned"

OutcomeAfterResponse(status, att, maxr, lexc) ==
    IF ShouldRetry5xx(status, att, maxr)
    THEN ContinueOutcome(att, maxr, lexc)
    ELSE "returned"

OutcomeAfterException(att, maxr) ==
    IF ShouldRetryExc(att, maxr)
    THEN ContinueOutcome(att, maxr, att)
    ELSE "raised"

PcOf(out) == IF out = "none" THEN "attempt" ELSE "done"

\* `body.get("errmsg") == "The token has expired." and refresh_fn`
RefreshTriggered(allow, expired) == allow /\ expired

\* the replay passes the same `headers` object as the first send
ReplayHeaders(hdrTok, curTok) == hdrTok

\* what r.json()["result"]["LOGINAT"] of a refresh response finds: a token,
\* the key with null or "" under it, or no such key (the lookup raises)
RefreshBodies == {"token", "blank", "absent"}

\* r.raise_for_status(); r.json()["result"]["LOGINAT"]: refresh() does not raise
RefreshSucceeds(status, hasTok) == status < 400 /\ hasTok

\* `self.tokens.login_at = r.json()["result"]["LOGINAT"]`
RefreshedToken(body, fresh) == IF body = "token" THEN fresh ELSE 0

\* `--throttle`, default 2.0
DefaultThrottle == 2

\* the values --throttle is given
ThrottleArgs == {0 - 1, 0, DefaultThrottle}

\* `self.throttle = max(0.0, float(throttle or 0.0))`
ClientThrottle(t) == IF t > 0 THEN t ELSE 0

\* `if self.throttle: time.sleep(self.throttle + random.uniform(0.05, 0.25))`
\* of episode_ticket and episode_content
Throttled(o, th) == o \in {"episode_ticket", "episode_content"} /\ th # 0

\* what precedes the first request of an operation
DelayBeforeCall(o, th) == IF Throttled(o, th) THEN "throttle" ELSE "none"

\* `time.sleep(backoff ** attempt)` before `continue`
DelayAfterResponse(status, att, maxr) ==
    IF ShouldRetry5xx(status, att, maxr) THEN "backoff" ELSE "none"

DelayAfterException(att, maxr) ==
    IF ShouldRetryExc(att, maxr) THEN "backoff" ELSE "none"

\* expiredReply: the request is a refresh request and the response to it says
\* the token has expired
Send(kind, tok) ==
    [kind |-> kind, tok |-> tok, cur |-> login_at,
     stale |-> (tok # 0 /\ tok \in stale), op |-> op, after |-> slept,
     expiredReply |-> FALSE]

StartCall(o, maxr, allow) ==
    /\ pc \in {"idle", "done"}
    /\ pc' = "attempt"
    /\ op' = o
    /\ headersTok' = OpHeaders(o, login_at)
    /\ allow_refresh' = allow
    /\ max_retries' = maxr
    /\ attempt' = 0
    /\ last_exc' = 0
    /\ r' = NoResp
    /\ rAttempt' = 0
    /\ outcome' = "none"
    /\ nSent' = 0
    /\ nResp' = 0
    /\ n5xx' = 0
    /\ nExc' = 0
    /\ nRefresh' = 0
    /\ slept' = DelayBeforeCall(o, throttle)
    /\ UNCHANGED <<login_at, lastSend, stale, throttle>>

\* me / novel / episode_list / episode_ticket / episode_content
ClientCall ==
    /\ \E o \in Ops : StartCall(o, OpMaxRetries(o), OpAllowRefresh(o))
    /\ UNCHANGED <<finVars, brVars, auxVars>>

\* request_with_retries called with any max_retries >= 1
DirectCall ==
    /\ \E n \in 1..MaxRetriesArg, a \in BOOLEAN : StartCall("direct", n, a)
    /\ UNCHANGED <<finVars, brVars, auxVars>>

\* session.request(...) raises RequestException on the first send of an attempt
SendRaises ==
    /\ pc = "attempt"
    /\ attempt < max_retries
    /\ attempt' = attempt + 1
    /\ nSent' = nSent + 1
    /\ nExc' = nExc + 1
    /\ last_exc' = attempt'
    /\ lastSend' = Send("first", headersTok)
    /\ outcome' = OutcomeAfterException(attempt', max_retries)
    /\ pc' = PcOf(outcome')
    /\ slept' = DelayAfterException(attempt', max_retries)
    /\ UNCHANGED <<op, login_at, headersTok, allow_refresh, max_retries, r,
                   rAttempt, nResp, n5xx, nRefresh, stale, throttle>>
    /\ UNCHANGED <<finVars, brVars, auxVars>>

\* session.request(...) returns a response on the first send of an attempt
SendResponds ==
    /\ pc = "attempt"
    /\ attempt < max_retries
    /\ \E resp \in Responses :
        /\ attempt' = attempt + 1
        /\ nSent' = nSent + 1
        /\ nResp' = nResp + 1
        /\ n5xx' = IF resp.status >= 500 THEN n5xx + 1 ELSE n5xx
        /\ r' = [id |-> nSent', status |-> resp.status, expired |-> resp.expired]
        /\ lastSend' = Send("first", headersTok)
        /\ IF RefreshTriggered(allow_refresh, resp.expired)
           THEN /\ pc' = "refresh"
                /\ rAttempt' = 0
                /\ nRefresh' = nRefresh + 1
                /\ stale' = IF headersTok # 0 THEN stale \cup {headersTok} ELSE stale
                /\ outcome' = "none"
                /\ slept' = "none"
           ELSE /\ outcome' = OutcomeAfterResponse(resp.status, attempt',
                                                   max_retries, last_exc)
                /\ pc' = PcOf(outcome')
                /\ slept' = DelayAfterResponse(resp.status, attempt', max_retries)
                /\ UNCHANGED <<rAttempt, nRefresh, stale>>
    /\ UNCHANGED <<op, login_at, headersTok, allow_refresh, max_retries,
                   last_exc, nExc, throttle>>
    /\ UNCHANGED <<finVars, brVars, auxVars>>

\* refresh_fn() raised: `except Exception: pass` skips the replay, r is kept
RefreshFailed ==
    /\ outcome' = OutcomeAfterResponse(r.status, attempt, max_retries, last_exc)
    /\ pc' = PcOf(outcome')
    /\ slept' = DelayAfterResponse(r.status, attempt, max_retries)
    /\ UNCHANGED <<login_at, stale>>

\* the request of refresh() raises RequestException
RefreshRaises ==
    /\ pc = "refresh"
    /\ rAttempt < RefreshMaxRetries
    /\ rAttempt' = rAttempt + 1
    /\ lastSend' = Send("refresh", merge_login_at(login_at))
    /\ IF ShouldRetryExc(rAttempt', RefreshMaxRetries)
       THEN /\ slept' = DelayAfterException(rAttempt', RefreshMaxRetries)
            /\ UNCHANGED <<pc, outcome, login_at, stale>>
       ELSE RefreshFailed
    /\ UNCHANGED <<op, headersTok, allow_refresh, max_retries, attempt,
                   last_exc, r, nSent, nResp, n5xx, nExc, nRefresh, throttle>>
    /\ UNCHANGED <<finVars, brVars, auxVars>>

\* the request of refresh() gets a response; when refresh() returns, the
\* replay follows.  The server answers with a LOGINAT field only a refresh
\* request that carries a token.  pc = "nested" stands for refresh_fn invoked
\* by the call that refresh() itself makes.
RefreshResponds ==
    /\ pc = "refresh"
    /\ rAttempt < RefreshMaxRetries
    /\ rAttempt' = rAttempt + 1
    /\ \E status \in Statuses, body \in RefreshBodies, expired \in BOOLEAN :
        /\ lastSend' = [Send("refresh", merge_login_at(login_at))
                           EXCEPT !.expiredReply = expired]
        /\ IF RefreshTriggered(OpAllowRefresh("refresh"), expired)
           THEN /\ pc' = "nested"
                /\ nRefresh' = nRefresh + 1
                /\ UNCHANGED <<outcome, login_at, stale, slept>>
           ELSE /\ UNCHANGED nRefresh
                /\ IF ShouldRetry5xx(status, rAttempt', RefreshMaxRetries)
                   THEN /\ slept' = DelayAfterResponse(status, rAttempt',
                                                       RefreshMaxRetries)
                        /\ UNCHANGED <<pc, outcome, login_at, stale>>
                   ELSE IF RefreshSucceeds(status, body # "absent")
                   THEN /\ login_at # 0
                        /\ body = "token" => login_at < MaxTokens
                        /\ login_at' = RefreshedToken(body, login_at + 1)
                        /\ stale' = IF body = "token" THEN {} ELSE stale
                        /\ pc' = "replay"
                        /\ slept' = "none"
                        /\ UNCHANGED outcome
                   ELSE RefreshFailed
    /\ UNCHANGED <<op, headersTok, allow_refresh, max_retries, attempt,
                   last_exc, r, nSent, nResp, n5xx, nExc, throttle>>
    /\ UNCHANGED <<finVars, brVars, auxVars>>

\* the replay raises RequestException: swallowed by `except Exception: pass`
ReplayRaises ==
    /\ pc = "replay"
    /\ nSent' = nSent + 1
    /\ lastSend' = Send("replay", ReplayHeaders(headersTok, login_at))
    /\ outcome' = OutcomeAfterResponse(r.status, attempt, max_retries, last_exc)
    /\ pc' = PcOf(outcome')
    /\ slept' = DelayAfterResponse(r.status, attempt, max_retries)
    /\ UNCHANGED <<op, login_at, headersTok, allow_refresh, max_retries,
                   attempt, last_exc, r, rAttempt, nResp, n5xx, nExc,
                   nRefresh, stale, throttle>>
    /\ UNCHANGED <<finVars, brVars, auxVars>>

\* the replay gets a response, which replaces r
ReplayResponds ==
    /\ pc = "replay"
    /\ \E resp \in Responses :
        /\ nSent' = nSent + 1
        /\ nResp' = nResp + 1
        /\ n5xx' = IF resp.status >= 500 THEN n5xx + 1 ELSE n5xx
        /\ r' = [id |-> nSent', status |-> resp.status, expired |-> resp.expired]
        /\ lastSend' = Send("replay", ReplayHeaders(headersTok, login_at))
        /\ outcome' = OutcomeAfterResponse(resp.status, attempt, max_retries,
                                           last_exc)
        /\ pc' = PcOf(outcome')
        /\ slept' = DelayAfterResponse(resp.status, attempt, max_retries)
    /\ UNCHANGED <<op, login_at, headersTok, allow_refresh, max_retries,
                   attempt, last_exc, rAttempt, nExc, nRefresh, stale, throttle>>
    /\ UNCHANGED <<finVars, brVars, auxVars>>

\* a client no request has been made with
ApiCode ==
    /\ pc = "idle"
    /\ op = "none"
    /\ login_at = 1
    /\ headersTok = 0
    /\ allow_refresh = FALSE
    /\ max_retries = 0
    /\ attempt = 0
    /\ last_exc = 0
    /\ r = NoResp
    /\ rAttempt = 0
    /\ outcome = "none"
    /\ nSent = 0
    /\ nResp = 0
    /\ n5xx = 0
    /\ nExc = 0
    /\ nRefresh = 0
    /\ lastSend = NoSend
    /\ stale = {}
    /\ slept = "none"

\* NovelpiaClient(...) with the default throttle
ApiInit == ApiCode /\ throttle = ClientThrottle(DefaultThrottle)

(***************************************************************************)
(* Properties of request_with_retries (checked under Spec).                *)
(***************************************************************************)

\* C1: with no network-level exception and no refresh, a response with
\* status >= 500 is retried while attempts remain, and the first response
\* with status < 500 (the k+1-th, after k server errors, k < max_retries) is
\* the one returned, after exactly k+1 requests.
C1_RetryUntilNon5xx ==
    (max_retries >= 1 /\ nExc = 0 /\ nRefresh = 0 /\ nResp >= 1) =>
        /\ (r.status < 500 =>
                /\ pc = "done"
                /\ outcome = "returned"
                /\ r.id = nSent
                /\ nSent = n5xx + 1
                /\ attempt = nSent)
        /\ (r.status >= 500 /\ attempt < max_retries =>
                pc = "attempt" /\ outcome = "none")

C1_Witness ==
    /\ pc = "done"
    /\ max_retries = 3
    /\ nExc = 0
    /\ nRefresh = 0
    /\ n5xx = 2
    /\ nSent = 3
    /\ r.status = 200
    /\ r.id = 3
    /\ outcome = "returned"

\* the call saw three responses, all with status >= 500, and max_retries = 3
ThreeServerErrors ==
    /\ pc = "done"
    /\ max_retries = 3
    /\ nExc = 0
    /\ nRefresh = 0
    /\ n5xx = 3

\* C2 as stated: max_retries = 3 and three consecutive 500 responses end the
\* call with an error raised to the caller after exactly 3 attempts.
C2_RaisesAfterThree500 ==
    ThreeServerErrors => (outcome = "raised" /\ attempt = 3)

\* C2 amended: max_retries = 3 and three consecutive 500 responses end the
\* call after exactly 3 attempts by returning the third 500 response; a
\* server-error response ends a call only on the last permitted attempt, and
\* then as the returned response, never as a raised error.
C2_ReturnsLast500 ==
    /\ ThreeServerErrors =>
            /\ outcome = "returned"
            /\ attempt = 3
            /\ nSent = 3
            /\ r.id = 3
            /\ r.status >= 500
    /\ (pc = "done" /\ max_retries >= 1 /\ last_exc # attempt /\ r.status >= 500) =>
            (outcome = "returned" /\ attempt = max_retries)

C2_Witness ==
    ThreeServerErrors /\ outcome = "returned" /\ r.status = 500 /\ r.id = 3

\* C3: a call whose every attempt raises a network-level exception raises to
\* the caller after exactly max_retries attempts (and requests); an exception
\* reaches the caller only from the last permitted attempt; an attempt that
\* ends with a response of status < 500 ends the call by returning it.
C3_NetworkFailures ==
    max_retries >= 1 =>
        /\ (outcome = "raised" =>
                pc = "done" /\ attempt = max_retries /\ last_exc = attempt)
        /\ (attempt >= 1 /\ nExc = attempt =>
                /\ nSent = attempt
                /\ attempt <= max_retries
                /\ (pc = "done" <=> attempt = max_retries)
                /\ (pc = "done" => outcome = "raised"))
        /\ (pc \in {"attempt", "done"} /\ attempt >= 1 /\ last_exc # attempt
              /\ r.status < 500 =>
                pc = "done" /\ outcome = "returned")

C3_Witness ==
    /\ pc = "done"
    /\ max_retries = 3
    /\ nExc = 3
    /\ nSent = 3
    /\ outcome = "raised"

\* C4: within one call the refresh callback is invoked at most once, counted
\* over all retry attempts of the call.
C4_RefreshAtMostOnce == nRefresh <= 1

\* C5: a replay sent after a successful refresh carries the refreshed
\* login-at value, not the one that was reported expired.
C5_ReplayCarriesRefreshed ==
    lastSend.kind = "replay" => lastSend.tok = lastSend.cur

\* C6: no request other than the refresh request itself carries a token for
\* which an expiry signal was observed with no successful refresh since.
C6_NoStaleTokenSent ==
    lastSend.kind \in {"first", "replay"} => ~lastSend.stale

\* the request sent last went to the ticket or the content endpoint
ContentSensitive(snd) ==
    /\ snd.kind \in {"first", "replay"}
    /\ snd.op \in {"episode_ticket", "episode_content"}

\* C23: every HTTP request sent to the ticket endpoint or the content
\* endpoint, retry attempts and the replay after a refresh included, is
\* immediately preceded by the throttle delay (fixed delay plus jitter), for
\* every configured throttle setting.
C23_ThrottleBeforeEach ==
    ContentSensitive(lastSend) => lastSend.after = "throttle"

\* the request the call sent last raised a network-level exception: the
\* response the call holds is not the answer to it
LastRequestRaised ==
    /\ pc \in {"attempt", "done"}
    /\ nSent >= 1
    /\ r.id # nSent

\* C34: a call ends with an error only when its last permitted attempt fails
\* at network level; every other call returns the last response it received,
\* whatever its status.
C34_ReturnsLastResponse ==
    (pc = "done" /\ max_retries >= 1) =>
        /\ outcome \in {"returned", "raised"}
        /\ outcome = "raised" <=> (attempt = max_retries /\ last_exc = attempt)
        /\ outcome = "returned" =>
              /\ r # NoResp
              /\ r.id \in {nSent, nSent - 1}
              /\ r.id = nSent - 1 => lastSend.kind = "replay"

\* network failures on earlier attempts, a server error on the last: returned
C34_Witness ==
    /\ pc = "done"
    /\ outcome = "returned"
    /\ max_retries = 3
    /\ nExc = 2
    /\ r.status = 500
    /\ r.id = nSent

\* C35: a network-level exception of any request of the call, first send or
\* replay, is followed by backoff and a retry while attempts remain and is
\* raised to the caller on the last attempt; the call never returns an earlier
\* response in its place.
C35_NoFailureDropped ==
    LastRequestRaised =>
        IF attempt < max_retries
        THEN pc = "attempt" /\ slept = "backoff"
        ELSE outcome = "raised"

\* C35 for the first send of an attempt alone
C35_FirstSendFailures ==
    (LastRequestRaised /\ lastSend.kind = "first") =>
        IF attempt < max_retries
        THEN pc = "attempt" /\ slept = "backoff"
        ELSE outcome = "raised"

\* C37: after start-up the stored session token changes only as the effect
\* of a successful refresh, one whose response brings a token; every client
\* operation and every failed refresh leaves it unchanged.
C37_TokenFrame ==
    [][login_at' # login_at => (pc = "refresh" /\ login_at' # 0)]_vars

\* C38: token refresh never nests: login() and refresh() send their requests
\* with refresh handling off, so a token-expired response to the refresh
\* request does not invoke the refresh callback again and no refresh starts
\* inside a refresh.
C38_RefreshNeverNests ==
    /\ ~OpAllowRefresh("login")
    /\ ~OpAllowRefresh("refresh")
    /\ pc # "nested"
    /\ nRefresh <= attempt

\* the refresh request was answered "The token has expired.": refresh() failed
\* and the callback was invoked once in this attempt
C38_Witness ==
    /\ lastSend.kind = "refresh"
    /\ lastSend.expiredReply
    /\ pc \in {"attempt", "done"}
    /\ attempt = 1
    /\ nRefresh = 1

\* the part about who writes: the token changes only when refresh(), called
\* by the executor, returns, just before the replay
C37_OnlyRefreshWrites ==
    [][login_at' # login_at => (pc = "refresh" /\ pc' = "replay")]_vars

(***************************************************************************)
(* Chapters and the de-dup / sort / cap block of main()                    *)
(* (pia.py 768-776, novelpia_epub.py 834-843).                             *)
(* A reference is a number: k > 0 is a URL containing "/viewer/", k < 0 a  *)
(* URL that does not, 0 is None.                                           *)
(***************************************************************************)
ViewerUrls == 1..NumViewer

OtherUrls == {-1}

Urls == ViewerUrls \cup OtherUrls

\* `"/viewer/" in url`
IsViewer(u) == u > 0

\* Chapter(idx, title, url); the title plays no part in discovery
Chapter(n, u) == [idx |-> n, url |-> u]

UrlsOf(chs) == {chs[k].url : k \in 1..Len(chs)}

RECURSIVE DedupFrom(_, _, _)
\* `for c in chapters: if c.url not in dedup and "/viewer/" in c.url: dedup[c.url] = c`
DedupFrom(chs, k, acc) ==
    IF k > Len(chs) THEN acc
    ELSE DedupFrom(chs, k + 1,
                   IF chs[k].url \notin UrlsOf(acc) /\ IsViewer(chs[k].url)
                   THEN Append(acc, chs[k])
                   ELSE acc)

Dedup(chs) == DedupFrom(chs, 1, <<>>)

RECURSIVE InsertByIdx(_, _)
\* c goes after every entry whose idx is <= c.idx (list.sort is stable)
InsertByIdx(sorted, c) ==
    IF sorted = <<>> THEN <<c>>
    ELSE IF sorted[Len(sorted)].idx <= c.idx THEN Append(sorted, c)
    ELSE Append(InsertByIdx(SubSeq(sorted, 1, Len(sorted) - 1), c),
                sorted[Len(sorted)])

RECURSIVE SortFrom(_, _, _)
SortFrom(chs, k, acc) ==
    IF k > Len(chs) THEN acc
    ELSE SortFrom(chs, k + 1, InsertByIdx(acc, chs[k]))

\* `chapters.sort(key=lambda c: c.idx)`
SortByIdx(chs) == SortFrom(chs, 1, <<>>)

\* off-by-one variant of the slice
CapList_short(chs, c) ==
    IF c > 0 THEN SubSeq(chs, 1, IF c - 1 < Len(chs) THEN c - 1 ELSE Len(chs))
    ELSE chs

\* the slice taken from the end of the list
CapList_last(chs, c) ==
    IF c > 0 THEN SubSeq(chs, IF c < Len(chs) THEN Len(chs) - c + 1 ELSE 1, Len(chs))
    ELSE chs

\* `if args.max_chapters and args.max_chapters > 0: chapters = chapters[:args.max_chapters]`
CapList(chs, c) ==
    IF c > 0 THEN SubSeq(chs, 1, IF c < Len(chs) THEN c ELSE Len(chs))
    ELSE chs

Finalize(chs, c) == CapList(SortByIdx(Dedup(chs)), c)

\* chapter lists as the strategies number them: idx is the position
RECURSIVE UrlSeqs(_)
UrlSeqs(n) ==
    IF n = 0 THEN {<<>>}
    ELSE LET shorter == UrlSeqs(n - 1)
         IN shorter \cup {Append(s, u) : s \in {t \in shorter : Len(t) = n - 1},
                                          u \in Urls}

Numbered(us) == [k \in 1..Len(us) |-> Chapter(k, us[k])]

FinInit ==
    /\ fin_pc = "input"
    /\ fin_in \in {Numbered(us) : us \in UrlSeqs(MaxFinLen)}
    /\ fin_cap \in 0..MaxCap
    /\ fin_out = <<>>

\* the finalizer block applied to fin_in
FinalizeStep ==
    /\ fin_pc = "input"
    /\ fin_out' = Finalize(fin_in, fin_cap)
    /\ fin_pc' = "done"
    /\ UNCHANGED <<fin_in, fin_cap>>
    /\ UNCHANGED <<apiVars, brVars, auxVars>>

FinNext == FinalizeStep

RECURSIVE FirstOccFrom(_, _, _)
FirstOccFrom(us, k, acc) ==
    IF k > Len(us) THEN acc
    ELSE FirstOccFrom(us, k + 1,
                      IF \E j \in 1..Len(acc) : acc[j] = us[k]
                      THEN acc ELSE Append(acc, us[k]))

\* the first occurrence of each distinct reference, in input order
FirstOccurrences(us) == FirstOccFrom(us, 1, <<>>)

UrlSeqOf(chs) == [k \in 1..Len(chs) |-> chs[k].url]

\* C8: the finalizer outputs the first occurrence of each distinct reference
\* in input order, re-numbered 1..m (stated for inputs of /viewer/ references
\* and no cap, where nothing else can shorten the list).
C8_DedupRenumbers ==
    (fin_pc = "done" /\ fin_cap = 0
       /\ \A k \in 1..Len(fin_in) : IsViewer(fin_in[k].url)) =>
        /\ UrlSeqOf(fin_out) = FirstOccurrences(UrlSeqOf(fin_in))
        /\ \A k \in 1..Len(fin_out) : fin_out[k].idx = k

\* the first n entries of s
FirstN(s, n) == SubSeq(s, 1, IF n < Len(s) THEN n ELSE Len(s))

\* the de-duplicated list in discovery order: the first occurrence of each
\* /viewer/ reference of chs
Discovered(chs) == FirstOccurrences(SelectSeq(UrlSeqOf(chs), IsViewer))

\* out holds the first c references of the de-duplicated chs (all, when c is 0)
CappedPrefix(chs, c, out) ==
    /\ c > 0 => (Len(out) <= c /\ UrlSeqOf(out) = FirstN(Discovered(chs), c))
    /\ c = 0 => UrlSeqOf(out) = Discovered(chs)

(***************************************************************************)
(* pia.py: the rendered listing.                                           *)
(* The listing has numPages pages of RowsPerPage rows; its pagination bar  *)
(* shows the page numbers of one group at a time and a next-group control. *)
(***************************************************************************)
\* `per_page = 20`
PerPage == 20

\* `safety_pages = total_pages or 200`
SafetyPages == 200

\* `for _ in range(40)` of goto_page
GroupAdvanceMax == 40

\* `max_steps: int = 300`, `lim = ... else 300`
WalkDefaultSteps == 300

\* the header counts main() may read: none, one page, three pages
Totals == {0, 20, 45}

GroupOf(p) == (p + GroupSize - 1) \div GroupSize

NumGroups == GroupOf(numPages)

\* the numeric button of page p is in the pagination bar
NumberShown(p, l, g) == l = 0 /\ p >= 1 /\ p <= numPages /\ GroupOf(p) = g

\* `.pagination .page-btn.current` exists
IndicatorShown(l, p, g) == NumberShown(p, l, g)

\* `.pagination .page-btn.arrow:has-text("›")` exists
ArrowShown(l, g) == l = 0 /\ (g < NumGroups \/ arrowAlways)

\* clicking the next-group control
NextGroup(g) == IF g < NumGroups THEN g + 1 ELSE g

\* the smallest page number of group g
FirstOfGroup(g) == (g - 1) * GroupSize + 1

\* get_current_page_num: 0 is None
get_current_page_num(l, p, g) == IF IndicatorShown(l, p, g) THEN p ELSE 0

\* `.ch-list-section .list-item` count
RowCount(l) == IF l = 0 THEN RowsPerPage ELSE 0

\* get_total_chapters, `math.ceil(total / per_page) if total else None`
TotalPages(t) == IF t > 0 THEN (t + PerPage - 1) \div PerPage ELSE 0

\* a page loop that ignores the total
SafetyPagesOf_always(t) == SafetyPages

SafetyPagesOf(t) == IF TotalPages(t) > 0 THEN TotalPages(t) ELSE SafetyPages

\* `hard_cap = cap if (cap and cap > 0) else None`
HardCap(c) == IF c > 0 THEN c ELSE 0

\* goto_page without its first test
AlreadyThere_never(t, l, p, g) == FALSE

\* `if cur_txt and cur_txt.strip().isdigit() and int(cur_txt.strip()) == target: return True`
AlreadyThere(t, l, p, g) == IndicatorShown(l, p, g) /\ p = t

\* goto_page(target) from page state (l, p, g); fault: its clicks time out.
\* The result: ok, the page state left behind, the next-group clicks made and
\* whether any click was issued.
GotoPage(t, l, p, g, fault) ==
    LET same == [ok |-> FALSE, page |-> p, group |-> g, arrows |-> 0, nav |-> FALSE]
        fwd == GroupOf(t) - g
    IN IF AlreadyThere(t, l, p, g)
         THEN [same EXCEPT !.ok = TRUE]
       ELSE IF fault
         THEN [same EXCEPT !.nav = (NumberShown(t, l, g) \/ ArrowShown(l, g))]
       ELSE IF NumberShown(t, l, g)
         THEN [ok |-> TRUE, page |-> t, group |-> g, arrows |-> 0, nav |-> TRUE]
       ELSE IF l = 0 /\ t >= 1 /\ t <= numPages /\ fwd > 0 /\ fwd < GroupAdvanceMax
         THEN [ok |-> TRUE, page |-> t, group |-> GroupOf(t), arrows |-> fwd,
               nav |-> TRUE]
       ELSE IF ArrowShown(l, g)
         THEN [ok |-> FALSE, page |-> p, group |-> NumGroups,
               arrows |-> IF arrowAlways THEN GroupAdvanceMax ELSE NumGroups - g,
               nav |-> TRUE]
       ELSE same

(***************************************************************************)
(* pia.py: collect_chapters_from_section (Strategy A)                      *)
(***************************************************************************)
\* `min(limit_on_page, remaining)` when a cap is set
LimitOnPage(count, hc, tried) ==
    IF hc > 0 THEN (IF count < hc - tried THEN count ELSE hc - tried) ELSE count

\* `if hard_cap is not None and items_tried >= hard_cap: break`
CapReached(hc, tried) == hc > 0 /\ tried >= hc

\* the stop test without its cap clause
StopAfterPage_nocap(tp, c, hc, tried) == tp > 0 /\ c >= tp

\* `if (total_pages and cur >= total_pages) or (hard_cap is not None and items_tried >= hard_cap): break`
StopAfterPage(tp, c, hc, tried) == (tp > 0 /\ c >= tp) \/ CapReached(hc, tried)

\* a test that takes a reference seen before
Accepts_seen(u, chs) == u # 0 /\ IsViewer(u)

\* `if url and "/viewer/" in url and url not in seen`
Accepts(u, chs) == u # 0 /\ IsViewer(u) /\ u \notin UrlsOf(chs)

\* looks_logged_out
looks_logged_out(out) == out

NoGoto == [called |-> FALSE, target |-> 0, ok |-> FALSE, arrows |-> 0, shown |-> 0]

NoPages == [p \in 1..MaxPages |-> 0]

UpTo2(n) == IF n < 2 THEN n + 1 ELSE 2

\* `return chapters`: the locals of collect_chapters_from_section are gone
ReturnA(chs, tried) ==
    /\ bpc' = "A_done"
    /\ primary' = chs
    /\ rowShown' = 0
    /\ processed' = NoPages
    /\ lastGoto' = NoGoto
    /\ reauth_run' = 0
    /\ cur' = 0
    /\ page_iter' = 0
    /\ items_tried' = 0
    /\ limit_on_page' = 0
    /\ i' = 0
    /\ capOutcome' = IF ~CapReached(HardCap(cap), tried) THEN "none"
                     ELSE IF Len(chs) = tried THEN "full" ELSE "short"

\* the session expires on the site
SessionExpires ==
    /\ bpc \in {"A_page", "A_row"}
    /\ ~loggedOut
    /\ logouts < MaxLogouts
    /\ loggedOut' = TRUE
    /\ logouts' = logouts + 1
    /\ UNCHANGED <<siteVars, loc, uiPage, uiGroup, faults, bpc, stratAVars,
                   chapters, walkVars, final, strategy, capOutcome, advAfterCap,
                   travGhosts, walkerRan>>
    /\ UNCHANGED <<apiVars, finVars, auxVars>>

\* collect_chapters_from_section up to the page loop
A_Start ==
    /\ bpc = "start"
    /\ \E timeout \in BOOLEAN :
        /\ timeout => faults < MaxFaults
        /\ faults' = IF timeout THEN faults + 1 ELSE faults
        /\ IF timeout
           THEN ReturnA(chapters, items_tried)
           ELSE /\ bpc' = "A_page"
                /\ cur' = IF get_current_page_num(loc, uiPage, uiGroup) # 0
                          THEN get_current_page_num(loc, uiPage, uiGroup)
                          ELSE 1
                /\ UNCHANGED <<page_iter, items_tried, limit_on_page, i, capOutcome,
                               travGhosts>>
    /\ UNCHANGED <<siteVars, loc, uiPage, uiGroup, loggedOut, logouts, chapters,
                   walkVars, final, strategy, advAfterCap, walkerRan>>
    /\ UNCHANGED <<apiVars, finVars, auxVars>>

\* the head of one iteration of `for _ in range(safety_pages)`
A_PageTop ==
    /\ bpc = "A_page"
    /\ IF page_iter >= SafetyPagesOf(total) \/ CapReached(HardCap(cap), items_tried)
       THEN ReturnA(chapters, items_tried)
       ELSE /\ page_iter' = page_iter + 1
            /\ cur' = IF get_current_page_num(loc, uiPage, uiGroup) # 0
                      THEN get_current_page_num(loc, uiPage, uiGroup)
                      ELSE cur
            /\ limit_on_page' = LimitOnPage(RowCount(loc), HardCap(cap), items_tried)
            /\ i' = 0
            /\ bpc' = "A_row"
            /\ rowShown' = 0
            /\ processed' = IF limit_on_page' > 0
                             THEN [processed EXCEPT ![cur'] = UpTo2(@)]
                             ELSE processed
            /\ UNCHANGED <<items_tried, capOutcome, lastGoto, reauth_run, primary>>
    /\ UNCHANGED <<siteVars, pageVars, chapters, walkVars, final, strategy,
                   advAfterCap, walkerRan>>
    /\ UNCHANGED <<apiVars, finVars, auxVars>>

\* how one row attempt can go
RowKinds == {"none", "click", "sniff", "stuck", "crash"}

\* one pass of `for i in range(limit_on_page)`: maybe_reauth,
\* click_item_capture_viewer, the href sniff and the append
A_Row ==
    /\ bpc = "A_row"
    /\ i < limit_on_page
    /\ \E kind \in RowKinds, u \in ViewerUrls \cup {0}, gf \in BOOLEAN,
          still \in BOOLEAN :
        LET re == looks_logged_out(loggedOut)
            \* maybe_reauth: ensure_login, safe_goto(novel_url)
            l1 == IF re THEN 0 ELSE loc
            p1 == IF re THEN 1 ELSE uiPage
            g1 == IF re THEN 1 ELSE uiGroup
            used == (IF kind \in {"stuck", "crash"} THEN 1 ELSE 0)
                    + (IF gf THEN 1 ELSE 0)
            \* click_item_capture_viewer: back to the listing, goto_page(cur_page)
            back == GotoPage(cur, 0, 1, 1, gf)
            url == IF kind \in {"click", "sniff"} THEN u ELSE 0
            chs == IF Accepts(url, chapters)
                   THEN Append(chapters, Chapter(Len(chapters) + 1, url))
                   ELSE chapters
        IN  /\ kind = "crash" => re
            /\ kind \in {"click", "sniff", "stuck"} => (l1 = 0 /\ u # 0)
            /\ kind \in {"none", "crash"} => u = 0
            /\ gf => kind = "click"
            /\ still => (re /\ kind # "crash")
            /\ faults + used <= MaxFaults
            /\ faults' = faults + used
            /\ loggedOut' = IF re THEN still ELSE loggedOut
            /\ IF kind = "crash"
               THEN /\ bpc' = "crashed"
                    /\ UNCHANGED <<loc, uiPage, uiGroup, stratAVars, chapters,
                                   capOutcome, travGhosts>>
               ELSE /\ loc' = IF kind = "stuck" THEN u ELSE l1
                    /\ uiPage' = IF kind = "click" THEN back.page ELSE p1
                    /\ uiGroup' = IF kind = "click" THEN back.group ELSE g1
                    /\ chapters' = chs
                    /\ IF Accepts(url, chapters)
                          /\ HardCap(cap) > 0 /\ Len(chs) >= HardCap(cap)
                       THEN ReturnA(chs, items_tried + 1)
                       ELSE /\ items_tried' = items_tried + 1
                            /\ i' = i + 1
                            /\ rowShown' = IF l1 = 0 THEN p1 ELSE 0
                            /\ reauth_run' = IF re THEN UpTo2(reauth_run) ELSE 0
                            /\ UNCHANGED <<bpc, cur, page_iter, limit_on_page,
                                           capOutcome, processed, lastGoto, primary>>
    /\ UNCHANGED <<siteVars, logouts, walkVars, final, strategy, advAfterCap,
                   walkerRan>>
    /\ UNCHANGED <<apiVars, finVars, auxVars>>

\* after the rows of a page: the stop test, goto_page(cur + 1), and the
\* next-group fallback
A_AfterRows ==
    /\ bpc = "A_row"
    /\ i >= limit_on_page
    /\ IF StopAfterPage(TotalPages(total), cur, HardCap(cap), items_tried)
       THEN /\ ReturnA(chapters, items_tried)
            /\ UNCHANGED <<loc, uiPage, uiGroup, faults, advAfterCap>>
       ELSE \E fault \in BOOLEAN :
            LET direct == GotoPage(cur + 1, loc, uiPage, uiGroup, fault)
                g2 == NextGroup(direct.group)
                t == FirstOfGroup(g2)
                second == GotoPage(t, loc, direct.page, g2, fault)
                called == [called |-> TRUE, target |-> cur + 1, ok |-> direct.ok,
                           arrows |-> direct.arrows,
                           shown |-> get_current_page_num(loc, direct.page,
                                                          direct.group)]
            IN  /\ fault => faults < MaxFaults
                /\ faults' = IF fault THEN faults + 1 ELSE faults
                /\ advAfterCap' = (advAfterCap \/ CapReached(HardCap(cap), items_tried))
                /\ UNCHANGED loc
                /\ IF direct.ok
                   THEN /\ uiPage' = direct.page
                        /\ uiGroup' = direct.group
                        /\ bpc' = "A_page"
                        /\ lastGoto' = called
                        /\ UNCHANGED <<stratAVars, capOutcome, rowShown, processed,
                                       reauth_run, primary>>
                   ELSE IF ArrowShown(loc, direct.group) /\ ~fault /\ second.ok
                   THEN /\ uiPage' = second.page
                        /\ uiGroup' = second.group
                        /\ bpc' = "A_page"
                        /\ lastGoto' = called
                        /\ UNCHANGED <<stratAVars, capOutcome, rowShown, processed,
                                       reauth_run, primary>>
                   ELSE /\ uiPage' = direct.page
                        /\ uiGroup' = IF ArrowShown(loc, direct.group) /\ ~fault
                                      THEN second.group ELSE direct.group
                        /\ ReturnA(chapters, items_tried)
    /\ UNCHANGED <<siteVars, loggedOut, logouts, chapters, walkVars, final,
                   strategy, walkerRan>>
    /\ UNCHANGED <<apiVars, finVars, auxVars>>

(***************************************************************************)
(* pia.py: main() after collect_chapters, and walk_next_chapters           *)
(***************************************************************************)
\* `only_non_viewer = chapters and all("/viewer/" not in c.url for c in chapters)`
OnlyNonViewer(chs) == chs # <<>> /\ \A k \in 1..Len(chs) : ~IsViewer(chs[k].url)

\* a limit that ignores the cap
WalkLimit_nocap(c) == WalkDefaultSteps

\* `lim = args.max_chapters if args.max_chapters and args.max_chapters > 0 else 300`
WalkLimit(c) == IF c > 0 THEN c ELSE WalkDefaultSteps

\* the test seeding the walker whatever Strategy A returned
NeedsWalk_always(chs) == TRUE

\* `if not chapters or only_non_viewer`
NeedsWalk(chs) == chs = <<>> \/ OnlyNonViewer(chs)

\* main() 727-766: Strategy B is seeded when Strategy A brought nothing usable
Main_AfterA ==
    /\ bpc = "A_done"
    /\ IF NeedsWalk(chapters)
       THEN \E start_url \in Urls \cup {0} :
            IF start_url # 0 /\ IsViewer(start_url)
            THEN /\ bpc' = "B_step"
                 /\ walk_url' = start_url
                 /\ walk_idx' = 1
                 /\ walk_steps' = 0
                 /\ walked' = <<>>
                 /\ walkerRan' = TRUE
                 /\ UNCHANGED strategy
            ELSE /\ bpc' = "finalize"
                 /\ UNCHANGED <<walkVars, strategy, walkerRan>>
       ELSE /\ bpc' = "finalize"
            /\ strategy' = "A"
            /\ UNCHANGED <<walkVars, walkerRan>>
    /\ UNCHANGED <<siteVars, pageVars, stratAVars, chapters, final, capOutcome,
                   advAfterCap, travGhosts>>
    /\ UNCHANGED <<apiVars, finVars, auxVars>>

\* `return chapters` of walk_next_chapters: its locals are gone
ReturnB ==
    /\ walk_url' = 0
    /\ walk_idx' = 0
    /\ walk_steps' = 0
    /\ walked' = <<>>

\* one iteration of the for loop of walk_next_chapters; leaving the loop
\* returns to main(): `if walked: chapters = walked`
B_Step ==
    /\ bpc = "B_step"
    /\ IF walk_steps >= WalkLimit(cap) \/ walk_url = 0 \/ walk_url \in UrlsOf(walked)
       THEN /\ bpc' = "finalize"
            /\ chapters' = IF walked # <<>> THEN walked ELSE chapters
            /\ strategy' = IF walked # <<>> THEN "B" ELSE strategy
            /\ ReturnB
            /\ UNCHANGED <<loc, faults>>
       ELSE \E timeout \in BOOLEAN, next_url \in Urls \cup {0} :
            /\ timeout => (faults < MaxFaults /\ next_url = 0)
            /\ faults' = IF timeout THEN faults + 1 ELSE faults
            /\ IF timeout
               THEN \* safe_goto raises: nothing in the walker or main() catches it
                    /\ bpc' = "crashed"
                    /\ UNCHANGED <<loc, walkVars, chapters, strategy>>
               ELSE /\ loc' = walk_url
                    /\ IF next_url = 0 \/ next_url = walk_url
                       THEN /\ bpc' = "finalize"
                            /\ chapters' = Append(walked, Chapter(walk_idx, walk_url))
                            /\ strategy' = "B"
                            /\ ReturnB
                       ELSE /\ bpc' = "B_step"
                            /\ walked' = Append(walked, Chapter(walk_idx, walk_url))
                            /\ walk_steps' = walk_steps + 1
                            /\ walk_url' = next_url
                            /\ walk_idx' = walk_idx + 1
                            /\ UNCHANGED <<chapters, strategy>>
    /\ UNCHANGED <<siteVars, uiPage, uiGroup, loggedOut, logouts, stratAVars,
                   final, capOutcome, advAfterCap, travGhosts, walkerRan>>
    /\ UNCHANGED <<apiVars, finVars, auxVars>>

\* main() 768-776: de-dup, sort, cap
Main_Finalize ==
    /\ bpc = "finalize"
    /\ final' = Finalize(chapters, cap)
    /\ bpc' = "final"
    /\ UNCHANGED <<siteVars, pageVars, stratAVars, chapters, walkVars, strategy,
                   capOutcome, advAfterCap, travGhosts, walkerRan>>
    /\ UNCHANGED <<apiVars, finVars, auxVars>>

BrCode ==
    /\ loc = 0
    /\ uiPage = 1
    /\ uiGroup = 1
    /\ loggedOut = FALSE
    /\ faults = 0
    /\ logouts = 0
    /\ cur = 0
    /\ page_iter = 0
    /\ items_tried = 0
    /\ limit_on_page = 0
    /\ i = 0
    /\ chapters = <<>>
    /\ walk_url = 0
    /\ walk_idx = 0
    /\ walk_steps = 0
    /\ walked = <<>>
    /\ final = <<>>
    /\ strategy = "none"
    /\ capOutcome = "none"
    /\ advAfterCap = FALSE
    /\ rowShown = 0
    /\ processed = NoPages
    /\ lastGoto = NoGoto
    /\ reauth_run = 0
    /\ primary = <<>>
    /\ walkerRan = FALSE

\* no browser run
BrIdle ==
    /\ bpc = "off"
    /\ cap = 0
    /\ total = 0
    /\ numPages = 1
    /\ arrowAlways = FALSE
    /\ BrCode

\* main() has loaded the novel page: the listing shows page 1
BrInit ==
    /\ bpc = "start"
    /\ cap \in 0..MaxCap
    /\ total \in Totals
    /\ numPages \in 1..MaxPages
    /\ arrowAlways \in BOOLEAN
    \* a bar whose next-group control stays after the last group: one-page listing
    /\ arrowAlways => numPages = 1
    /\ BrCode

(***************************************************************************)
(* Claims about the browser pipeline (SpecBrowser)                         *)
(***************************************************************************)
\* the urls of a chapter list are pairwise distinct
DistinctUrls(chs) ==
    \A j, k \in 1..Len(chs) : j # k => chs[j].url # chs[k].url

\* C7: on every run of the browser pipeline, whichever strategy produced the
\* chapters, the final chapter list has pairwise distinct urls and idx values
\* exactly 1, 2, ..., n in list order.
C7_FinalDense ==
    bpc = "final" =>
        /\ DistinctUrls(final)
        /\ \A k \in 1..Len(final) : final[k].idx = k

\* C9 as stated: for every cap c > 0, when the listing offers at least c rows,
\* the final chapter list has length exactly c.
C9_ExactlyCap ==
    (bpc = "final" /\ cap > 0 /\ numPages * RowsPerPage >= cap) =>
        Len(final) = cap

\* C9 amended: for every cap c > 0 the final chapter list has at most c
\* entries, and it has exactly c when Strategy A made c row attempts that each
\* added a new /viewer/ reference.
C9_CapOnAttempts ==
    (bpc = "final" /\ cap > 0) =>
        /\ Len(final) <= cap
        /\ (strategy = "A" /\ capOutcome = "full") => Len(final) = cap

\* a capped run over two pages of rows whose three attempts all added a chapter
C9_Witness ==
    /\ bpc = "final"
    /\ cap = MaxCap
    /\ cap > RowsPerPage
    /\ strategy = "A"
    /\ capOutcome = "full"
    /\ Len(final) = cap

\* C10: in Strategy A with cap c > 0 the number of row attempts never exceeds
\* c, and once the attempts equal c no navigation to a further listing page is
\* issued.
C10_CapStopsTraversal ==
    /\ (cap > 0 /\ bpc \in {"A_page", "A_row"}) => items_tried <= cap
    /\ ~advAfterCap

\* Strategy A returned because its attempts reached the cap, with fewer
\* chapters than attempts, on a page that has a successor
C10_Witness ==
    /\ bpc = "A_done"
    /\ cap > RowsPerPage
    /\ capOutcome = "short"
    /\ Len(chapters) < cap
    /\ loc = 0
    /\ uiPage < numPages

\* C24: a timeout of a navigation or UI wait (loading a reference in the
\* fallback walk, reloading the listing during re-authentication, returning to
\* the listing after a row click) never ends the run: main() goes on to its
\* finalizer with the chapters collected so far.
C24_TimeoutKeepsRun == bpc # "crashed"

\* C26: whenever a row of listing page n is attempted (title read, element
\* clicked) the listing shows page n: after each capture and after a
\* re-authentication reload the traversal is back on the originating page
\* before the next row is processed.
C26_RowsOnOriginPage ==
    (bpc = "A_row" /\ rowShown # 0) => rowShown = cur

\* C27: in one Strategy A traversal no listing page number has its rows
\* processed more than once.
C27_NoPageTwice ==
    \A p \in 1..MaxPages : processed[p] <= 1

\* C28: goto_page(p) clicks the next-group control at most GroupAdvanceMax
\* times per call and returns true only when the current-page indicator
\* equals p; when it returns false the traversal stops and returns the
\* chapters collected so far.
C28_GotoBoundedThenStop ==
    lastGoto.called =>
        /\ lastGoto.arrows <= GroupAdvanceMax
        /\ lastGoto.ok => lastGoto.shown = lastGoto.target
        /\ ~lastGoto.ok => bpc \notin {"A_page", "A_row"}

\* the part of C28 about goto_page alone
C28_GotoBounded ==
    lastGoto.called =>
        /\ lastGoto.arrows <= GroupAdvanceMax
        /\ lastGoto.ok => lastGoto.shown = lastGoto.target

\* C29: a detected logout triggers one re-authentication and reload; when
\* the logged-out heuristic still holds right afterwards no further
\* re-authentication is attempted for it.
C29_OneReauth == reauth_run <= 1

\* C30: the fallback walker is started only when Strategy A returned no
\* usable chapter reference; when Strategy A returned at least one chapter
\* the walker is never run and the final list holds only references that
\* Strategy A discovered.
C30_WalkerOnlyWhenEmpty ==
    /\ walkerRan => (primary = <<>> /\ bpc # "A_done")
    /\ bpc = "B_step" => walkerRan
    /\ (bpc \in {"finalize", "final"} /\ primary # <<>>) =>
          /\ ~walkerRan
          /\ strategy = "A"
          /\ chapters = primary
    /\ (bpc = "final" /\ primary # <<>>) =>
          (final # <<>> /\ UrlsOf(final) \subseteq UrlsOf(primary))

\* Strategy A returned two chapters, the run ended with them
C30_Witness ==
    /\ bpc = "final"
    /\ Len(primary) = 2
    /\ ~walkerRan
    /\ final = primary

\* the list of Strategy A at one moment of the traversal
ResultListOk ==
    bpc \in {"A_page", "A_row"} =>
        /\ \A k \in 1..Len(chapters) : chapters[k].idx = k
        /\ \A k \in 1..Len(chapters) : IsViewer(chapters[k].url)
        /\ DistinctUrls(chapters)
        /\ Len(chapters) <= items_tried

\* one step of the traversal leaves the list alone or appends one entry to it
OnlyAppends ==
    bpc \in {"A_page", "A_row"} =>
        \/ chapters' = chapters
        \/ /\ Len(chapters') = Len(chapters) + 1
           /\ SubSeq(chapters', 1, Len(chapters)) = chapters

\* C39: after every step of Strategy A the chapter list has only grown by
\* appending, its k-th entry has idx = k, every url contains "/viewer/", the
\* urls are pairwise distinct and the list is no longer than the number of
\* row attempts made so far.
C39_ResultList == []ResultListOk /\ [][OnlyAppends]_vars

\* three row attempts, one of them on a reference seen before: two chapters
C39_Witness ==
    /\ bpc = "A_row"
    /\ items_tried = 3
    /\ Len(chapters) = 2
    /\ chapters[2].idx = 2

\* the smallest n with n * b >= a
CeilDiv(a, b) == CHOOSE n \in 0..a : n * b >= a /\ (n - 1) * b < a

\* page iterations Strategy A may make: ceil(total / 20), or 200 with no total
PageBound == IF total > 0 THEN CeilDiv(total, PerPage) ELSE SafetyPages

\* C33: Strategy A makes at most ceil(total / 20) page iterations when the
\* listing shows its total (3 for 45 items) and at most 200 when it does not;
\* inside an iteration the row loop is bounded by the rows of the page and the
\* group-advance loop of goto_page by 40 clicks.
C33_PagesBounded ==
    /\ page_iter <= PageBound
    /\ total = 45 => page_iter <= 3
    /\ i <= limit_on_page
    /\ limit_on_page <= RowsPerPage
    /\ lastGoto.arrows <= GroupAdvanceMax

\* the page loop ended by its bound alone: 45 items, three passes, page 3 never
\* reached
C33_Witness ==
    /\ bpc = "A_page"
    /\ total = 45
    /\ cap = 0
    /\ page_iter = 3
    /\ cur < 3

\* the same with no total: the safety bound ends the loop
C33_WitnessUnknown ==
    /\ bpc = "A_page"
    /\ total = 0
    /\ page_iter = SafetyPages

BrNext ==
    \/ SessionExpires
    \/ A_Start
    \/ A_PageTop
    \/ A_Row
    \/ A_AfterRows
    \/ Main_AfterA
    \/ B_Step
    \/ Main_Finalize

(***************************************************************************)
(* pia.py: walk_next_chapters alone (novelpia_epub.py 524-603 is the same  *)
(* loop).  A reference is a positive number, 0 is None; the site's         *)
(* references are numbered in the order the walk meets them, so 1..wn_known *)
(* are the references shown so far and wn_known + 1 is one never shown      *)
(* before.  The graph of next links is whatever the site answers step by   *)
(* step: no next link, a link to the page itself, to a page visited        *)
(* before, or to a new page, without end.                                  *)
(***************************************************************************)
\* what the Next control of page `url` can lead to: nothing, the page itself,
\* a new page, or a visited one (the first page or the page before)
NextLinks(url, known) ==
    {0, url, known + 1} \cup {v \in 1..known : v = 1 \/ v = url - 1}

NoLoads == [u \in {} |-> 0]

\* the browser loads reference u once more
Load(loads, u) ==
    [v \in DOMAIN loads \cup {u} |->
        IF v = u THEN (IF u \in DOMAIN loads THEN UpTo2(loads[u]) ELSE 1)
        ELSE loads[v]]

\* `if not url or url in seen: break`
LoopBreaks(url, seen) == url = 0 \/ url \in seen

\* `if not next_url or next_url == url: break`
WalkEnds(next_url, url) == next_url = 0 \/ next_url = url

\* main() 761-763 calls walk_next_chapters(page, start_url, max_steps=lim)
WalkInit ==
    /\ wn_pc = "loop"
    /\ wn_cap \in 0..MaxCap
    /\ wn_max = WalkLimit(wn_cap)
    /\ wn_button \in BOOLEAN
    /\ wn_url = 1
    /\ wn_idx = 1
    /\ wn_steps = 0
    /\ wn_seen = {}
    /\ wn_chapters = <<>>
    /\ wn_known = 1
    /\ wn_loads = NoLoads

\* walk_next_chapters is not called
WalkIdle ==
    /\ wn_pc = "off"
    /\ wn_cap = 0
    /\ wn_max = 0
    /\ wn_button = FALSE
    /\ wn_url = 0
    /\ wn_idx = 0
    /\ wn_steps = 0
    /\ wn_seen = {}
    /\ wn_chapters = <<>>
    /\ wn_known = 0
    /\ wn_loads = NoLoads

\* the for loop is over, by exhaustion of range(max_steps) or by the break
\* at its top: `return chapters`
Walk_Return ==
    /\ wn_pc = "loop"
    /\ wn_steps >= wn_max \/ LoopBreaks(wn_url, wn_seen)
    /\ wn_pc' = "returned"
    /\ UNCHANGED <<wn_cap, wn_max, wn_button, wn_url, wn_idx, wn_steps, wn_seen,
                   wn_chapters, wn_known, wn_loads>>
    /\ UNCHANGED wnOthers

\* page.goto of safe_goto times out: the exception leaves the function
Walk_Raise ==
    /\ wn_pc = "loop"
    /\ wn_steps < wn_max /\ ~LoopBreaks(wn_url, wn_seen)
    /\ wn_pc' = "raised"
    /\ wn_steps' = wn_steps + 1
    /\ wn_seen' = wn_seen \cup {wn_url}
    /\ UNCHANGED <<wn_cap, wn_max, wn_button, wn_url, wn_idx, wn_chapters,
                   wn_known, wn_loads>>
    /\ UNCHANGED wnOthers

\* one iteration of the for loop: load `url`, append its chapter, look for
\* the next reference.  A Next control with an href gives the reference
\* without navigating; one without is clicked, the browser loads the page
\* it leads to and `next_url = page.url`.
Walk_Step ==
    /\ wn_pc = "loop"
    /\ wn_steps < wn_max /\ ~LoopBreaks(wn_url, wn_seen)
    /\ \E next_url \in NextLinks(wn_url, wn_known) :
         LET clicked == wn_button /\ next_url # 0 /\ next_url # wn_url
             gone == Load(wn_loads, wn_url)
         IN  /\ wn_steps' = wn_steps + 1
             /\ wn_seen' = wn_seen \cup {wn_url}
             /\ wn_chapters' = Append(wn_chapters, Chapter(wn_idx, wn_url))
             /\ wn_loads' = IF clicked THEN Load(gone, next_url) ELSE gone
             /\ wn_known' = IF next_url > wn_known THEN next_url ELSE wn_known
             /\ IF WalkEnds(next_url, wn_url)
                THEN /\ wn_pc' = "returned"
                     /\ UNCHANGED <<wn_url, wn_idx>>
                ELSE /\ wn_pc' = "loop"
                     /\ wn_url' = next_url
                     /\ wn_idx' = wn_idx + 1
    /\ UNCHANGED <<wn_cap, wn_max, wn_button>>
    /\ UNCHANGED wnOthers

WalkNext ==
    \/ Walk_Return
    \/ Walk_Raise
    \/ Walk_Step

(***************************************************************************)
(* Claims about walk_next_chapters (SpecWalk)                              *)
(***************************************************************************)
\* the references of the list returned are those of the visited set, each once
VisitedOnce ==
    /\ Cardinality(UrlsOf(wn_chapters)) = Len(wn_chapters)
    /\ wn_pc # "raised" => UrlsOf(wn_chapters) = wn_seen

\* C31 without its first part: the visited set ends the walk at a missing,
\* repeated or visited next reference, and page.goto loads no reference twice
C31_GotoOncePerReference ==
    wn_pc # "off" =>
        /\ VisitedOnce
        /\ ~wn_button => \A u \in DOMAIN wn_loads : wn_loads[u] <= 1
        /\ (wn_pc = "returned" /\ wn_steps < wn_max) =>
               LoopBreaks(wn_url, wn_seen) \/ wn_url = wn_chapters[Len(wn_chapters)].url

\* C31: whatever the graph of next links, cycles and self-links included, the
\* browser loads no reference more than once, the references returned are
\* pairwise distinct, and the walk stops at the first missing, repeated or
\* visited next reference.
C31_NoReferenceTwice ==
    wn_pc # "off" =>
        /\ VisitedOnce
        /\ \A u \in DOMAIN wn_loads : wn_loads[u] <= 1

\* the step bound main() is meant to pass
StepBound == IF wn_cap > 0 THEN wn_cap ELSE WalkDefaultSteps

\* the walk makes at most max_steps iterations and returns at most
\* max_steps chapters, max_steps being the chapter cap when it is > 0 and
\* 300 otherwise; every iteration that stays in the loop is counted
C32_WalkBounded ==
    wn_pc # "off" =>
        /\ wn_steps <= StepBound
        /\ Len(wn_chapters) <= StepBound
        /\ wn_pc = "loop" => Len(wn_chapters) = wn_steps

\* an endless chain that never repeats, ended by the default step bound
C32_Witness ==
    /\ wn_pc = "returned"
    /\ wn_cap = 0
    /\ Len(wn_chapters) = WalkDefaultSteps
    /\ wn_url \notin wn_seen
    /\ wn_url # 0

\* C32, with termination: the walk is bounded as above at every moment, and
\* it ends
C32_TerminatesBounded == []C32_WalkBounded /\ <>(wn_pc # "loop")

(***************************************************************************)
(* api.py: looks_like_jwt                                                  *)
(* A string is a sequence of character classes: "b" a character of the     *)
(* base64 alphabet (A-Z a-z 0-9 - _), "x" any other ASCII character but     *)
(* '=' and '.', "u" a non-ASCII character, "." the dot.                     *)
(***************************************************************************)
Chars == {"b", "x", "u", "."}

RECURSIVE Strs(_)
Strs(n) ==
    IF n = 0 THEN {<<>>}
    ELSE LET shorter == Strs(n - 1)
         IN  shorter \cup {Append(s, c) : s \in {t \in shorter : Len(t) = n - 1},
                                          c \in Chars}

\* "abc.def.ghi"
AbcDefGhi == <<"b", "b", "b", ".", "b", "b", "b", ".", "b", "b", "b">>

\* a three-segment string whose segments are unpadded base64url of 3, 6 and 2 bytes
WellFormedJwt == <<"b", "b", "b", "b", ".", "b", "b", "b", "b", "b", "b", "b", "b",
                   ".", "b", "b", "b">>

\* `token.split(".")`
RECURSIVE SplitFrom(_, _, _, _)
SplitFrom(s, k, seg, acc) ==
    IF k > Len(s) THEN Append(acc, seg)
    ELSE IF s[k] = "." THEN SplitFrom(s, k + 1, <<>>, Append(acc, seg))
    ELSE SplitFrom(s, k + 1, Append(seg, s[k]), acc)

Split(s) == SplitFrom(s, 1, <<>>, <<>>)

CountOf(seg, c) == Cardinality({k \in 1..Len(seg) : seg[k] = c})

\* `base64.urlsafe_b64decode(p + "===")` does not raise: a non-ASCII str is
\* rejected, characters outside the alphabet are discarded (validate=False),
\* and the remaining data characters must not number 1 more than a multiple
\* of 4; the appended "===" supplies any padding needed
Decodes(seg) ==
    /\ \A k \in 1..Len(seg) : seg[k] # "u"
    /\ CountOf(seg, "b") % 4 # 1

looks_like_jwt(s) ==
    /\ Len(Split(s)) = 3
    /\ \A k \in 1..3 : Decodes(Split(s)[k])

JwtInit ==
    /\ jwt_in \in Strs(MaxStrLen) \cup {AbcDefGhi, WellFormedJwt}
    /\ jwt_out = FALSE
    /\ jwt_pc = "input"

JwtIdle ==
    /\ jwt_in = <<>>
    /\ jwt_out = FALSE
    /\ jwt_pc = "off"

LooksLikeJwt ==
    /\ jwt_pc = "input"
    /\ jwt_out' = looks_like_jwt(jwt_in)
    /\ jwt_pc' = "done"
    /\ UNCHANGED jwt_in
    /\ UNCHANGED jwtOthers

JwtNext == LooksLikeJwt

\* valid base64url data, padding-tolerant: alphabet characters only, in a
\* number that some byte string encodes to
ValidBase64Url(seg) ==
    /\ \A k \in 1..Len(seg) : seg[k] = "b"
    /\ Len(seg) % 4 # 1

\* C14: looks_like_jwt(s) is true iff s splits on '.' into exactly three
\* segments that are each valid base64url data; looks_like_jwt("abc.def.ghi")
\* is false and a well-formed three-segment base64url string gives true.
C14_JwtShape ==
    jwt_pc = "done" =>
        /\ jwt_out = (/\ Len(Split(jwt_in)) = 3
                      /\ \A k \in 1..3 : ValidBase64Url(Split(jwt_in)[k]))
        /\ jwt_in = AbcDefGhi => ~jwt_out
        /\ jwt_in = WellFormedJwt => jwt_out

(***************************************************************************)
(* api.py: extract_t_token                                                 *)
(* A JSON value that is looked at as a token is a leaf: a string (a         *)
(* sequence of character classes) or something that is not a string (null,  *)
(* a number, an absent key).  A URL string is given by what urlparse and    *)
(* parse_qs read from it: its netloc, its path and the first value of its   *)
(* _t parameter.  A netloc is "api" (api-global.novelpia.com itself),       *)
(* "api_suffixed" (another host whose name ends with that string, such as   *)
(* xapi-global.novelpia.com) or "other"; a path is "content"                *)
(* (/v1/novel/episode/content itself), "content_suffixed" (a longer path    *)
(* ending with it, such as /x/v1/novel/episode/content) or "other".         *)
(***************************************************************************)
StrLeaf(chars) == [str |-> TRUE, s |-> chars]

NotStr == [str |-> FALSE, s |-> <<>>]

EmptyStr == StrLeaf(<<>>)

\* plain (not JWT-shaped) strings
P1 == StrLeaf(<<"b">>)
P2 == StrLeaf(<<"b", "x">>)
P3 == StrLeaf(<<"b", ".", "b">>)
P4 == StrLeaf(<<"x", "b">>)

\* JWT-shaped strings
J1 == StrLeaf(WellFormedJwt)
J2 == StrLeaf(AbcDefGhi)
J3 == StrLeaf(<<"b", "b", ".", "b", "b", ".", "b", "b">>)
J4 == StrLeaf(<<"b", "b", "b", ".", "b", "b", ".", "b", "b">>)
J5 == StrLeaf(<<"b", "b", ".", "b", "b", "b", ".", "b", "b">>)

\* `("_t", "t", "token")`
TokenKeys == <<"_t", "t", "token">>

\* the shapes of tdata
Shapes == {"object",       \* {"result": {...}, ...}
           "no_result",    \* a dict without "result"
           "not_object",   \* tdata is a list
           "result_null", "result_list", "result_str", "result_num"}

\* the values under result's token keys
ResultDicts ==
    {("_t" :> a) @@ ("t" :> b) @@ ("token" :> c) :
        a \in {NotStr, EmptyStr, P1, J1}, b \in {NotStr, EmptyStr, P2, J2},
        c \in {NotStr, P1, J1}}

\* dict values of result, in the order of res.items()
NestedDicts ==
    {("_t" :> a) @@ ("t" :> b) @@ ("token" :> c) :
        a \in {NotStr, P3, J3}, b \in {NotStr, P3, J3}, c \in {NotStr, J3}}

\* URL strings inside tdata, in the order iter_strings yields them
Url(netloc, path, t) == [netloc |-> netloc, path |-> path, t |-> t]

UrlStrings ==
    {Url("other", "content", J4),
     Url("api", "content", NotStr),
     Url("api", "content", P4),
     Url("api", "content", J5),
     Url("api_suffixed", "content", J4),
     Url("api", "content_suffixed", P4)}

UrlLists == {<<>>} \cup {<<u>> : u \in UrlStrings}
                   \cup {<<u, v>> : u \in UrlStrings, v \in UrlStrings}

\* `res = tdata.get("result", {}) if isinstance(tdata, dict) else {}`
ResIsDict(shape) == shape \in {"object", "no_result", "not_object"}

\* `isinstance(v, str) and v`
NonEmptyStr(v) == v.str /\ v.s # <<>>

\* a candidate: the value, and the index of the URL string it was read from
Cand(v, u) == [v |-> v, url |-> u]

Tier1(t) ==
    IF t.shape = "object"
    THEN [k \in 1..3 |-> Cand(t.res[TokenKeys[k]], 0)]
    ELSE <<>>

Tier2(t) ==
    IF t.shape = "object" /\ t.nested # <<>>
    THEN [k \in 1..3 |-> Cand(t.nested[1][TokenKeys[k]], 0)]
    ELSE <<>>

\* `p.netloc.endswith("api-global.novelpia.com") and
\*  p.path.endswith("/v1/novel/episode/content")`
EndpointTest(u) ==
    /\ u.netloc \in {"api", "api_suffixed"}
    /\ u.path \in {"content", "content_suffixed"}

\* the `_t` values of the URL strings that pass the endpoint test
RECURSIVE Tier3From(_, _)
Tier3From(urls, k) ==
    IF k > Len(urls) THEN <<>>
    ELSE (IF EndpointTest(urls[k]) THEN <<Cand(urls[k].t, k)>> ELSE <<>>)
         \o Tier3From(urls, k + 1)

Tier3(t) == Tier3From(t.urls, 1)

NotFound == [raised |-> FALSE, token |-> NotStr, direct |-> 0]

Raised == [raised |-> TRUE, token |-> NotStr, direct |-> 0]

\* returning the first non-empty string of any kind
ReturnsNow_any(v) == TRUE

\* returning on the first plain string instead
ReturnsNow_plain(v) == ~looks_like_jwt(v.s)

\* `if looks_like_jwt(v): return v ...`
ReturnsNow(v) == looks_like_jwt(v.s)

\* keeping the last plain string seen
KeepFallback_last(fb, v) == v

\* `fallback_token = fallback_token or v`
KeepFallback(fb, v) == IF NonEmptyStr(fb) THEN fb ELSE v

\* the three loops of extract_t_token over their candidates, in order
RECURSIVE Scan(_, _, _)
Scan(cands, k, fb) ==
    IF k > Len(cands)
    THEN (IF NonEmptyStr(fb) THEN [raised |-> FALSE, token |-> fb, direct |-> 0]
          ELSE NotFound)
    ELSE IF NonEmptyStr(cands[k].v)
    THEN (IF ReturnsNow(cands[k].v)
          THEN [raised |-> FALSE, token |-> cands[k].v, direct |-> cands[k].url]
          ELSE Scan(cands, k + 1, KeepFallback(fb, cands[k].v)))
    ELSE Scan(cands, k + 1, fb)

\* extract_t_token: `res.get(k)` raises AttributeError when res is no dict
extract_t_token(t) ==
    IF ~ResIsDict(t.shape) THEN Raised
    ELSE Scan(Tier1(t) \o Tier2(t) \o Tier3(t), 1, NotStr)

\* EpubBuilder.build 508-521 on the pair extract_t_token returned: skip the
\* episode, `client.episode_content(token_t)`, or `client.s.get(direct_url)`
FetchBranch(out) ==
    IF ~NonEmptyStr(out.token) /\ out.direct = 0 THEN "skip"
    ELSE IF NonEmptyStr(out.token) THEN "episode_content"
    ELSE "direct_url"

ExtInit ==
    /\ ext_in \in
        {[shape |-> "object", res |-> d, nested |-> n, urls |-> u] :
            d \in ResultDicts,
            n \in {<<>>} \cup {<<x>> : x \in NestedDicts}, u \in UrlLists}
        \cup
        {[shape |-> sh, res |-> [k \in {"_t", "t", "token"} |-> NotStr],
          nested |-> <<>>, urls |-> u] :
            sh \in Shapes \ {"object"}, u \in UrlLists}
    /\ ext_out = NotFound
    /\ ext_pc = "input"

ExtIdle ==
    /\ ext_in = [shape |-> "no_result", res |-> [k \in {"_t", "t", "token"} |-> NotStr],
                 nested |-> <<>>, urls |-> <<>>]
    /\ ext_out = NotFound
    /\ ext_pc = "off"

ExtractToken ==
    /\ ext_pc = "input"
    /\ ext_out' = extract_t_token(ext_in)
    /\ ext_pc' = "done"
    /\ UNCHANGED ext_in
    /\ UNCHANGED extOthers

ExtNext == ExtractToken

(***************************************************************************)
(* Claims about extract_t_token (SpecExtract)                              *)
(***************************************************************************)
\* C15: extract_t_token is total: for every ticket payload shape, a payload
\* that is not an object or whose result is null, a list, a string or a
\* number included, it returns a token or 'not found' and never raises.
C15_NeverRaises == ext_pc = "done" => ~ext_out.raised

JwtShaped(v) == NonEmptyStr(v) /\ looks_like_jwt(v.s)

\* the position of the first JWT-shaped value under the token keys of d, or 0
FirstJwtKey(d) ==
    IF \E k \in 1..3 : JwtShaped(d[TokenKeys[k]])
    THEN CHOOSE k \in 1..3 :
            /\ JwtShaped(d[TokenKeys[k]])
            /\ \A j \in 1..(k - 1) : ~JwtShaped(d[TokenKeys[j]])
    ELSE 0

\* every candidate of the three tiers, in traversal order
AllCands(t) == Tier1(t) \o Tier2(t) \o Tier3(t)

\* C16: a JWT-shaped value under _t, t, token directly under result is the
\* result, the first such key winning; otherwise a JWT-shaped value under
\* those keys of a nested object wins over any content-endpoint URL; a
\* non-JWT string of an earlier tier never wins over a JWT-shaped value of
\* a later tier.
C16_TierOrder ==
    (ext_pc = "done" /\ ~ext_out.raised) =>
        LET k1 == IF ext_in.shape = "object" THEN FirstJwtKey(ext_in.res) ELSE 0
            k2 == IF ext_in.shape = "object" /\ ext_in.nested # <<>>
                  THEN FirstJwtKey(ext_in.nested[1]) ELSE 0
        IN  /\ k1 > 0 =>
                ext_out = [raised |-> FALSE, token |-> ext_in.res[TokenKeys[k1]],
                           direct |-> 0]
            /\ (k1 = 0 /\ k2 > 0) =>
                ext_out = [raised |-> FALSE,
                           token |-> ext_in.nested[1][TokenKeys[k2]], direct |-> 0]
            /\ (\E k \in 1..Len(AllCands(ext_in)) : JwtShaped(AllCands(ext_in)[k].v))
                => JwtShaped(ext_out.token)

\* plain strings under result, a JWT-shaped value in a nested object and one
\* in a content-endpoint URL: the nested one is returned
C16_Witness ==
    /\ ext_pc = "done"
    /\ ext_in.shape = "object"
    /\ ext_in.res["_t"] = P1
    /\ ext_in.res["t"] = P2
    /\ ext_in.nested # <<>>
    /\ ext_in.nested[1]["_t"] = P3
    /\ ext_in.nested[1]["t"] = J3
    /\ ext_in.urls = <<Url("api", "content", J5)>>
    /\ ext_out.token = J3

ExactEndpoint(u) == u.netloc = "api" /\ u.path = "content"

\* no candidate under the token keys of result or of a nested object
NoKeyCandidate(t) ==
    \A k \in 1..Len(Tier1(t) \o Tier2(t)) : ~NonEmptyStr((Tier1(t) \o Tier2(t))[k].v)

\* C36: a token is taken from a URL string only when the URL's host is the
\* content API host and its path is the content-fetch path; a URL whose host
\* or path merely ends with them yields no candidate.
C36_ExactEndpointOnly ==
    (ext_pc = "done" /\ ~ext_out.raised) =>
        /\ ext_out.direct # 0 => ExactEndpoint(ext_in.urls[ext_out.direct])
        /\ (/\ NoKeyCandidate(ext_in)
            /\ \A k \in 1..Len(ext_in.urls) :
                  ExactEndpoint(ext_in.urls[k]) => ~NonEmptyStr(ext_in.urls[k].t))
           => ext_out = NotFound

\* what the code ensures instead: a token is taken from a URL string only when
\* its netloc ends with the API host name and its path with the content path
C36_SuffixEndpoint ==
    (ext_pc = "done" /\ ~ext_out.raised) =>
        /\ ext_out.direct # 0 => EndpointTest(ext_in.urls[ext_out.direct])
        /\ (/\ NoKeyCandidate(ext_in)
            /\ \A k \in 1..Len(ext_in.urls) :
                  EndpointTest(ext_in.urls[k]) => ~NonEmptyStr(ext_in.urls[k].t))
           => ext_out = NotFound

\* C40: the direct content URL of the result is set only together with a
\* JWT-shaped token read from the _t parameter of that same URL, so the
\* builder fetches through episode_content with the token and never through
\* the direct URL.
C40_DirectOnlyWithToken ==
    (ext_pc = "done" /\ ~ext_out.raised) =>
        /\ ext_out.direct # 0 =>
              /\ ext_out.direct \in 1..Len(ext_in.urls)
              /\ JwtShaped(ext_out.token)
              /\ ext_out.token = ext_in.urls[ext_out.direct].t
        /\ FetchBranch(ext_out) # "direct_url"

\* a plain string under a token key, then a URL with a JWT-shaped _t: the
\* URL's token is returned with the URL, and the builder uses the token
C40_Witness ==
    /\ ext_pc = "done"
    /\ ext_in.shape = "object"
    /\ ext_in.res["_t"] = P1
    /\ Len(ext_in.urls) = 2
    /\ ext_out.direct = 2
    /\ ext_out.token = J5
    /\ FetchBranch(ext_out) = "episode_content"

(***************************************************************************)
(* api.py: EpubBuilder.build, `for i, ep in enumerate(episodes, 1)`        *)
(***************************************************************************)
\* how client.episode_ticket(epi_no) can end
TicketKinds == {"http_error",   \* raise_for_status raised requests.HTTPError
                "net_error",    \* request_with_retries re-raised a RequestException
                "bad_json",     \* r.json() raised
                "payload"}      \* a JSON value was returned

\* how client.episode_content(token_t) can end
ContentKinds == {"http_error", "net_error", "bad_json",
                 "not_dict",    \* a JSON value on which cdata.get / result_block.get raises
                 "empty",       \* a dict with no epi_content* and no fallback field
                 "html"}        \* a dict with a non-empty body

NoUrls == <<>>

NoTokens == ("_t" :> NotStr) @@ ("t" :> NotStr) @@ ("token" :> NotStr)

\* the ticket payloads the server answers with
TicketPayloads ==
    {[shape |-> "object", res |-> [NoTokens EXCEPT !["_t"] = J1], nested |-> <<>>,
      urls |-> NoUrls],
     [shape |-> "object", res |-> [NoTokens EXCEPT !["token"] = P1], nested |-> <<>>,
      urls |-> NoUrls],
     [shape |-> "object", res |-> NoTokens, nested |-> <<>>, urls |-> NoUrls],
     [shape |-> "result_null", res |-> NoTokens, nested |-> <<>>, urls |-> NoUrls]}

\* the loop going on to the content fetch without a token
NoToken_never(out) == FALSE

\* `if not token_t and not direct_url`
NoToken(out) == ~NonEmptyStr(out.token) /\ out.direct = 0

\* the exception leaves build(): main catches requests.HTTPError only, and
\* that clause ends the run as well
EndsRun(kind) == kind \in {"net_error", "bad_json", "not_dict"}

NoLog == [ticket |-> "none", found |-> FALSE, content |-> "none"]

\* `max_chapters=(args.max_chapters if args.max_chapters and args.max_chapters > 0 else None)`,
\* 0 is None
MaxChaptersArg(c) == IF c > 0 THEN c ELSE 0

\* `if max_chapters is not None and max_chapters > 0: ep_list = ep_list[: int(max_chapters)]`:
\* the length of the list that is left
CapEpisodes(n, mc) == IF mc > 0 /\ mc < n THEN mc ELSE n

\* fetch_and_build has received the episode list
BuildInit ==
    /\ eb_pc = "list"
    /\ eb_len \in 1..MaxEpisodes
    /\ eb_cap \in 0..MaxCap
    /\ eb_n = 0
    /\ eb_i = 1
    /\ eb_toc = <<>>
    /\ eb_calls = [e \in 1..MaxEpisodes |-> 0]
    /\ eb_log = [e \in 1..MaxEpisodes |-> NoLog]

BuildIdle ==
    /\ eb_pc = "off"
    /\ eb_len = 0
    /\ eb_cap = 0
    /\ eb_n = 1
    /\ eb_i = 1
    /\ eb_toc = <<>>
    /\ eb_calls = [e \in 1..MaxEpisodes |-> 0]
    /\ eb_log = [e \in 1..MaxEpisodes |-> NoLog]

\* fetch_and_build 641-654: the cap, then builder.build(episodes=ep_list)
Fetch_Cap ==
    /\ eb_pc = "list"
    /\ eb_n' = CapEpisodes(eb_len, MaxChaptersArg(eb_cap))
    /\ eb_pc' = "loop"
    /\ UNCHANGED <<eb_len, eb_cap, eb_i, eb_toc, eb_calls, eb_log>>
    /\ UNCHANGED buildOthers

\* one pass of the loop body: ticket, extract_t_token, content, chapter
Build_Episode ==
    /\ eb_pc = "loop"
    /\ eb_i <= eb_n
    /\ \E tk \in TicketKinds, tdata \in TicketPayloads, ck \in ContentKinds :
        LET out == extract_t_token(tdata)
            got == tk = "payload"
            \* the content request is made
            fetch == got /\ ~out.raised /\ ~NoToken(out)
            crash == \/ EndsRun(tk)
                     \/ got /\ out.raised
                     \/ fetch /\ EndsRun(ck)
            add == fetch /\ ck \in {"empty", "html"}
        IN  /\ eb_calls' = [eb_calls EXCEPT ![eb_i] = @ + 1]
            /\ eb_log' = [eb_log EXCEPT ![eb_i] =
                            [ticket |-> tk,
                             found |-> got /\ ~out.raised /\ NonEmptyStr(out.token),
                             content |-> IF fetch THEN ck ELSE "none"]]
            /\ eb_toc' = IF add
                         THEN Append(eb_toc, [ep |-> eb_i, body |-> ck = "html"])
                         ELSE eb_toc
            /\ eb_pc' = IF crash THEN "aborted" ELSE "loop"
            /\ eb_i' = IF crash THEN eb_i ELSE eb_i + 1
    /\ UNCHANGED <<eb_len, eb_cap, eb_n>>
    /\ UNCHANGED buildOthers

\* after the loop: the About page, `epub.write_epub(out_path, book, {})`
Build_Write ==
    /\ eb_pc = "loop"
    /\ eb_i > eb_n
    /\ eb_pc' = "done"
    /\ UNCHANGED <<eb_len, eb_cap, eb_n, eb_i, eb_toc, eb_calls, eb_log>>
    /\ UNCHANGED buildOthers

BuildNext ==
    \/ Fetch_Cap
    \/ Build_Episode
    \/ Build_Write

(***************************************************************************)
(* Claims about EpubBuilder.build (SpecBuild)                              *)
(***************************************************************************)
\* the episodes of the chapters added, in the order added
TocEpisodes == [k \in 1..Len(eb_toc) |-> eb_toc[k].ep]

\* ticket and content of episode e succeeded
Succeeded(e) ==
    /\ eb_log[e].ticket = "payload"
    /\ eb_log[e].found
    /\ eb_log[e].content \in {"empty", "html"}

\* the ticket of episode e came back and holds no token
TokenNotFound(e) == eb_log[e].ticket = "payload" /\ ~eb_log[e].found

RECURSIVE SucceededFrom(_)
SucceededFrom(e) ==
    IF e > eb_n THEN <<>>
    ELSE (IF Succeeded(e) THEN <<e>> ELSE <<>>) \o SucceededFrom(e + 1)

\* C11: an episode whose ticket payload yields no token is omitted from the
\* packaged chapters, every other episode whose ticket and content succeed
\* is included in list order, and the ticket operation of the omitted
\* episode is invoked exactly once.
C11_NotFoundSkippedOnce ==
    eb_pc = "done" =>
        /\ TocEpisodes = SucceededFrom(1)
        /\ \A e \in 1..eb_n : TokenNotFound(e) =>
                /\ \A k \in 1..Len(eb_toc) : eb_toc[k].ep # e
                /\ eb_calls[e] = 1

\* 5 episodes, episode 3 not found, the others fetched: 4 chapters
C11_Witness ==
    /\ eb_pc = "done"
    /\ eb_n = 5
    /\ TokenNotFound(3)
    /\ \A e \in {1, 2, 4, 5} : Succeeded(e)
    /\ TocEpisodes = <<1, 2, 4, 5>>
    /\ eb_calls[3] = 1

\* C12: a failure of one episode's ticket or content fetch (HTTP error
\* status, network failure after the retries, unusable body) skips that
\* episode only; the run is never aborted by one chapter's failure.
C12_NeverAborted == eb_pc # "aborted"

\* C13: every chapter that is packaged has a non-empty body.
C13_NoEmptyChapter ==
    eb_pc = "done" => \A k \in 1..Len(eb_toc) : eb_toc[k].body

\* the episodes handed to build are the first c of the list, and no other
\* episode is ticketed
ApiCapped ==
    /\ eb_n = (IF eb_cap > 0 /\ eb_cap < eb_len THEN eb_cap ELSE eb_len)
    /\ \A e \in 1..MaxEpisodes : eb_calls[e] > 0 => e <= eb_n

\* C25: for every cap c > 0 the final chapter list has at most c entries, the
\* first c entries of the de-duplicated list in discovery order (API
\* pipeline: at most c episodes are ticketed, the first c of the ascending
\* list); with cap 0 nothing is truncated.
C25_CapTruncates ==
    /\ fin_pc = "done" => CappedPrefix(fin_in, fin_cap, fin_out)
    /\ bpc = "final" => CappedPrefix(chapters, cap, final)
    /\ eb_pc \in {"loop", "done", "aborted"} => ApiCapped

\* a list with a repeated reference and more distinct /viewer/ references
\* than the cap allows
C25_Witness ==
    /\ fin_pc = "done"
    /\ fin_cap > 1
    /\ Len(Discovered(fin_in)) > fin_cap
    /\ Len(fin_in) > Len(Discovered(fin_in))
    /\ UrlSeqOf(fin_out) = FirstN(Discovered(fin_in), fin_cap)

(***************************************************************************)
(* pia.py: goto_page(target) called twice in a row                         *)
(***************************************************************************)
NoCall == [ok |-> FALSE, page |-> 0, group |-> 0, arrows |-> 0, nav |-> FALSE]

GotoInit ==
    /\ gp_pc = "ready"
    /\ gp_target \in 0..(MaxPages + 1)
    /\ gp_first = NoCall
    /\ gp_second = NoCall
    /\ bpc = "off"
    /\ cap = 0
    /\ total = 0
    /\ numPages \in 1..MaxPages
    /\ arrowAlways \in BOOLEAN
    /\ loc \in {0} \cup ViewerUrls
    /\ uiPage \in 1..numPages
    /\ uiGroup \in 1..NumGroups
    /\ loggedOut = FALSE
    /\ faults = 0
    /\ logouts = 0
    /\ cur = 0
    /\ page_iter = 0
    /\ items_tried = 0
    /\ limit_on_page = 0
    /\ i = 0
    /\ chapters = <<>>
    /\ walk_url = 0
    /\ walk_idx = 0
    /\ walk_steps = 0
    /\ walked = <<>>
    /\ final = <<>>
    /\ strategy = "none"
    /\ capOutcome = "none"
    /\ advAfterCap = FALSE
    /\ rowShown = 0
    /\ processed = NoPages
    /\ lastGoto = NoGoto
    /\ reauth_run = 0
    /\ primary = <<>>
    /\ walkerRan = FALSE

GotoIdle ==
    /\ gp_pc = "off"
    /\ gp_target = 0
    /\ gp_first = NoCall
    /\ gp_second = NoCall

\* one call of goto_page(gp_target) on the page as it is
GotoCall(res, fault) ==
    /\ fault => faults < MaxFaults
    /\ faults' = IF fault THEN faults + 1 ELSE faults
    /\ uiPage' = res.page
    /\ uiGroup' = res.group
    /\ UNCHANGED <<siteVars, loc, loggedOut, logouts, bpc, stratAVars, chapters,
                   walkVars, final, strategy, capOutcome, advAfterCap, travGhosts,
                   walkerRan>>
    /\ UNCHANGED gotoOthers

Goto_First ==
    /\ gp_pc = "ready"
    /\ \E fault \in BOOLEAN :
        LET res == GotoPage(gp_target, loc, uiPage, uiGroup, fault)
        IN  /\ GotoCall(res, fault)
            /\ gp_first' = res
    /\ gp_pc' = "once"
    /\ UNCHANGED <<gp_target, gp_second>>

Goto_Second ==
    /\ gp_pc = "once"
    /\ \E fault \in BOOLEAN :
        LET res == GotoPage(gp_target, loc, uiPage, uiGroup, fault)
        IN  /\ GotoCall(res, fault)
            /\ gp_second' = res
    /\ gp_pc' = "twice"
    /\ UNCHANGED <<gp_target, gp_first>>

GotoNext ==
    \/ Goto_First
    \/ Goto_Second

(***************************************************************************)
(* Claims about goto_page (SpecGoto)                                       *)
(***************************************************************************)
\* C18 as stated: for every target page p, the second of two consecutive
\* calls goto_page(p) issues no navigation action.
C18_SecondCallNoNav == gp_pc = "twice" => ~gp_second.nav

\* C18 amended: when the first call goto_page(p) returned true, the second
\* call returns true and issues no navigation action.
C18_NoNavAfterSuccess ==
    (gp_pc = "twice" /\ gp_first.ok) => (gp_second.ok /\ ~gp_second.nav)

\* the first call stepped to a later group and clicked the number, the second
\* did nothing
C18_Witness ==
    /\ gp_pc = "twice"
    /\ gp_first.ok
    /\ gp_first.nav
    /\ gp_first.arrows > 0
    /\ gp_second.ok
    /\ ~gp_second.nav

(***************************************************************************)
(* api.py: request_with_retries, the HTTP_LOG prints of one attempt        *)
(* A JSON value is a string or a dict.  A string is given by its form       *)
(* (short; long: more than 64 characters; jwt: two dots and parts of more   *)
(* than 5 characters) and by whether it is a credential value.  A dict is   *)
(* the sequence of its items; a key is "cred" when its name contains one of *)
(* pass, passwd, password, authorization, token, login-at, login_at, _t.    *)
(***************************************************************************)
Str(form, secret) == [t |-> "str", form |-> form, secret |-> secret, kids |-> <<>>]

Dict(kids) == [t |-> "dict", form |-> "", secret |-> FALSE, kids |-> kids]

Item(key, val) == [key |-> key, val |-> val]

KeyKinds == {"cred", "plain"}

Leaves == {Str("short", TRUE), Str("jwt", TRUE), Str("long", TRUE), Str("short", FALSE)}

\* dicts of strings, and dicts that may hold such a dict
InnerDicts == {Dict(<<>>)} \cup {Dict(<<Item(k, v)>>) : k \in KeyKinds, v \in Leaves}

OuterDicts ==
    {Dict(<<>>)} \cup {Dict(<<Item(k, v)>>) : k \in KeyKinds, v \in Leaves \cup InnerDicts}

\* `"***"`
Redacted == Str("redacted", FALSE)

\* _mask_value on a string: a jwt-like one keeps 6 characters at each end, a
\* long one its first 32, any other is returned as it is
MaskStr(v) ==
    IF v.form = "jwt" THEN [v EXCEPT !.form = "ends"]
    ELSE IF v.form = "long" THEN [v EXCEPT !.form = "prefix"]
    ELSE v

\* _mask_value: dict values are mapped by _mask_value, whatever their keys
RECURSIVE _mask_value(_)
_mask_value(v) ==
    IF v.t = "dict"
    THEN Dict([k \in 1..Len(v.kids) |->
                 Item(v.kids[k].key, _mask_value(v.kids[k].val))])
    ELSE MaskStr(v)

\* _mask_kv: the items of the dict itself are redacted by key name
_mask_kv(d) ==
    IF d.t # "dict" THEN d
    ELSE Dict([k \in 1..Len(d.kids) |->
                 Item(d.kids[k].key,
                      IF d.kids[k].key = "cred" THEN Redacted
                      ELSE _mask_value(d.kids[k].val))])

\* `if headers:`, `if params:`, `if json is not None:`, `if data is not None and not json:`
Printed(part, v) == part \in {"json", "data"} \/ v # Dict(<<>>)

\* `d = data if isinstance(data, (str, bytes)) else _j(_mask_kv(data))`
ShownRequest(part, v) ==
    IF part = "data" /\ v.t = "str" THEN v ELSE _mask_kv(v)

LogInit ==
    /\ log_pc = "start"
    /\ http_log \in BOOLEAN
    /\ log_part \in {"headers", "params", "json", "data"}
    /\ log_req \in OuterDicts \cup (IF log_part = "data" THEN Leaves ELSE {})
    /\ log_body \in OuterDicts
    /\ log_lines = {}

LogIdle ==
    /\ log_pc = "off"
    /\ http_log = FALSE
    /\ log_part = "headers"
    /\ log_req = Dict(<<>>)
    /\ log_body = Dict(<<>>)
    /\ log_lines = {}

\* lines 174-190 and the send of line 192
Log_Request ==
    /\ log_pc = "start"
    /\ log_lines' = IF http_log /\ Printed(log_part, log_req)
                    THEN log_lines \cup
                         {[part |-> log_part, shown |-> ShownRequest(log_part, log_req),
                           filtered |-> ~(log_part = "data" /\ log_req.t = "str")]}
                    ELSE log_lines
    /\ log_pc' = "sent"
    /\ UNCHANGED <<http_log, log_part, log_req, log_body>>
    /\ UNCHANGED logOthers

\* lines 202-211: `t = r.text`, `body_preview = (t[:500] + "...") if len(t) > 500 else t`
Log_Response ==
    /\ log_pc = "sent"
    /\ log_lines' = IF http_log
                    THEN log_lines \cup
                         {[part |-> "body", shown |-> log_body, filtered |-> FALSE]}
                    ELSE log_lines
    /\ log_pc' = "done"
    /\ UNCHANGED <<http_log, log_part, log_req, log_body>>
    /\ UNCHANGED logOthers

LogNext ==
    \/ Log_Request
    \/ Log_Response

(***************************************************************************)
(* Claims about the diagnostic log (SpecLog)                               *)
(***************************************************************************)
\* a credential string of v is shown whole
RECURSIVE InClear(_)
InClear(v) ==
    IF v.t = "dict"
    THEN \E k \in 1..Len(v.kids) : InClear(v.kids[k].val)
    ELSE v.secret /\ v.form \in {"short", "long", "jwt"}

\* C19: with diagnostic logging enabled no credential value is written to
\* the log in clear: every logged request part and every logged response
\* body passes through the masking filter, which redacts credential-named
\* fields at any nesting depth.
C19_NoCredentialInClear ==
    \A line \in log_lines : line.filtered /\ ~InClear(line.shown)

(***************************************************************************)
(* api.py: main()                                                          *)
(***************************************************************************)
ExitSuccess == 0

\* `sys.exit(1)` of the HTTPError clause; also the status of an uncaught exception
ExitHttpFailure == 1

\* `sys.exit(2)`
ExitMissingCredentials == 2

Running == 0 - 1

\* a stored field: the key is absent (or the file is missing or unreadable),
\* its value is empty or blank, or it holds a value
StoredKinds == {"absent", "blank", "value"}

\* an option: not given, given empty, given
ArgKinds == {"absent", "empty", "value"}

\* `(cfg.get(...) or "").strip() or None` is not None
Stored(f) == f = "value"

\* `if cfg_login_at and cfg_userkey`
HasStoredSession(la, uk) == Stored(la) /\ Stored(uk)

\* the test looking at the e-mail only
MissingCredentials_email(e, p) == e # "value"

\* `if not args.email or not args.password`
MissingCredentials(e, p) == e # "value" \/ p # "value"

\* max_retries=2 in login()
LoginMaxRetries == 2

\* the token a stored session holds, and the one a login of this run returns
StoredToken == 1

LoginToken == 2

\* the user key a stored session holds, and `uuid.uuid4().hex`
StoredKey == 1

FreshKey == 2

\* the session file main() finds, as load_config and the two `.strip()` see it
FileOf(la, uk) ==
    [login_at |-> IF Stored(la) THEN StoredToken ELSE 0,
     userkey |-> IF Stored(uk) THEN StoredKey ELSE 0]

\* NovelpiaClient.__init__: `if not userkey: userkey = uuid.uuid4().hex`
ClientKey(uk) == IF Stored(uk) THEN StoredKey ELSE FreshKey

\* a saved configuration that drops the user key
SavedConfig_nokey(tok, cookie, cfgkey) == [login_at |-> tok, userkey |-> 0]

\* `save_config({"login_at": client.tokens.login_at, "userkey": userkey_val or cfg_userkey or ""})`
SavedConfig(tok, cookie, cfgkey) ==
    [login_at |-> tok, userkey |-> IF cookie # 0 THEN cookie ELSE cfgkey]

NoFirst == [sent |-> FALSE, tok |-> 0, file |-> FileOf("absent", "absent")]

StartInit ==
    /\ st_pc = "start"
    /\ cfg_login_at \in StoredKinds
    /\ cfg_userkey \in StoredKinds
    /\ arg_email \in ArgKinds
    /\ arg_password \in ArgKinds
    /\ st_requests = 0
    /\ st_exit = Running
    /\ st_file = FileOf(cfg_login_at, cfg_userkey)
    /\ st_tok = 0
    /\ st_key = 0
    /\ st_logins = 0
    /\ st_first = NoFirst
    /\ st_refreshed = FALSE

StartIdle ==
    /\ st_pc = "off"
    /\ cfg_login_at = "absent"
    /\ cfg_userkey = "absent"
    /\ arg_email = "absent"
    /\ arg_password = "absent"
    /\ st_requests = 0
    /\ st_exit = Running
    /\ st_file = FileOf("absent", "absent")
    /\ st_tok = 0
    /\ st_key = 0
    /\ st_logins = 0
    /\ st_first = NoFirst
    /\ st_refreshed = FALSE

\* main() 693-706: load_config, then the client of the stored session or of
\* the credentials
Main_Config ==
    /\ st_pc = "start"
    /\ IF HasStoredSession(cfg_login_at, cfg_userkey)
       THEN /\ st_pc' = "session"
            /\ st_tok' = FileOf(cfg_login_at, cfg_userkey).login_at
            /\ st_key' = ClientKey(cfg_userkey)
            /\ UNCHANGED st_exit
       ELSE IF MissingCredentials(arg_email, arg_password)
       THEN /\ st_pc' = "exited"
            /\ st_exit' = ExitMissingCredentials
            /\ UNCHANGED <<st_tok, st_key>>
       ELSE /\ st_pc' = "login"
            /\ st_key' = ClientKey(cfg_userkey)
            /\ UNCHANGED <<st_exit, st_tok>>
    /\ UNCHANGED <<cfg_login_at, cfg_userkey, arg_email, arg_password, st_requests,
                   st_file, st_logins, st_first, st_refreshed>>
    /\ UNCHANGED startOthers

\* main() 707-717: one request of client.login() and, when it brought the
\* token, save_config; an HTTP error of the login is raised outside the try
\* block of main()
Main_Login ==
    /\ st_pc = "login"
    /\ st_logins < LoginMaxRetries
    /\ st_logins' = st_logins + 1
    /\ st_requests' = st_requests + 1
    /\ \E how \in {"ok", "retry", "failed"} :
        /\ how = "retry" => ShouldRetryExc(st_logins', LoginMaxRetries)
        /\ st_pc' = IF how = "ok" THEN "session"
                    ELSE IF how = "retry" THEN "login" ELSE "exited"
        /\ st_exit' = IF how = "failed" THEN ExitHttpFailure ELSE st_exit
        /\ st_tok' = IF how = "ok" THEN LoginToken ELSE st_tok
        /\ st_file' = IF how = "ok"
                      THEN SavedConfig(LoginToken, st_key,
                                       FileOf(cfg_login_at, cfg_userkey).userkey)
                      ELSE st_file
    /\ UNCHANGED <<cfg_login_at, cfg_userkey, arg_email, arg_password, st_key,
                   st_first, st_refreshed>>
    /\ UNCHANGED startOthers

\* main() 719-729: fetch_and_build, one attempt of request_with_retries at a
\* time: the request, and on an expired token refresh() and the replay.
\* client.me() comes first; the content requests carry no login-at header.
Main_Fetch ==
    /\ st_pc = "session"
    /\ \E how \in {"more", "http_error", "written"}, auth \in BOOLEAN,
          ref \in {"none", "ok", "failed"} :
        LET sent == IF ref = "ok" THEN 3 ELSE IF ref = "failed" THEN 2 ELSE 1
        IN  /\ ~st_first.sent => auth
            /\ ref # "none" => RefreshTriggered(auth, TRUE)
            /\ ref = "ok" => st_tok < MaxTokens
            /\ st_requests + sent <= MaxRequests
            /\ how = "more" => st_requests + sent < MaxRequests
            /\ st_requests' = st_requests + sent
            /\ st_first' = IF st_first.sent THEN st_first
                           ELSE [sent |-> TRUE,
                                 tok |-> IF auth THEN merge_login_at(st_tok) ELSE 0,
                                 file |-> st_file]
            /\ st_tok' = IF ref = "ok" THEN st_tok + 1 ELSE st_tok
            /\ st_refreshed' = (st_refreshed \/ ref = "ok")
            /\ st_pc' = IF how = "more" THEN "session" ELSE "exited"
            /\ st_exit' = IF how = "more" THEN st_exit
                          ELSE IF how = "written" THEN ExitSuccess
                          ELSE ExitHttpFailure
    /\ UNCHANGED <<cfg_login_at, cfg_userkey, arg_email, arg_password, st_file,
                   st_key, st_logins>>
    /\ UNCHANGED startOthers

StartNext ==
    \/ Main_Config
    \/ Main_Login
    \/ Main_Fetch

StoredSessionUsed ==
    HasStoredSession(cfg_login_at, cfg_userkey) =>
        /\ st_logins = 0
        /\ st_first.sent => st_first.tok = StoredToken

\* a successful login has written its token and the user key to the session
\* file, and the file held them when the first other request was sent
LoginPersisted ==
    /\ st_tok # 0 => (st_file.login_at = LoginToken /\ st_file.userkey = st_key
                      /\ st_key # 0)
    /\ st_first.sent => (st_first.file = st_file /\ st_first.tok = LoginToken)

C22_RefreshPersisted ==
    st_refreshed => (st_file.login_at = st_tok /\ st_file.userkey = st_key)

FinIdle ==
    /\ fin_in = <<>>
    /\ fin_cap = 0
    /\ fin_out = <<>>
    /\ fin_pc = "off"

AuxIdle == JwtIdle /\ ExtIdle /\ BuildIdle /\ GotoIdle /\ LogIdle /\ StartIdle /\ WalkIdle

\* NovelpiaClient(...) with any --throttle
Init ==
    /\ ApiCode
    /\ throttle \in {ClientThrottle(t) : t \in ThrottleArgs}
    /\ FinIdle /\ BrIdle /\ AuxIdle

Next ==
    \/ ClientCall
    \/ DirectCall
    \/ SendRaises
    \/ SendResponds
    \/ RefreshRaises
    \/ RefreshResponds
    \/ ReplayRaises
    \/ ReplayResponds

Spec == Init /\ [][Next]_vars

InitFinalizer == ApiInit /\ FinInit /\ BrIdle /\ AuxIdle

SpecFinalizer == InitFinalizer /\ [][FinNext]_vars

InitBrowser == ApiInit /\ FinIdle /\ BrInit /\ AuxIdle

SpecBrowser == InitBrowser /\ [][BrNext]_vars

InitJwt == ApiInit /\ FinIdle /\ BrIdle /\ JwtInit /\ ExtIdle /\ BuildIdle /\ GotoIdle /\ LogIdle
    /\ StartIdle /\ WalkIdle

SpecJwt == InitJwt /\ [][JwtNext]_vars

InitExtract == ApiInit /\ FinIdle /\ BrIdle /\ JwtIdle /\ ExtInit /\ BuildIdle /\ GotoIdle /\ LogIdle
    /\ StartIdle /\ WalkIdle

SpecExtract == InitExtract /\ [][ExtNext]_vars

InitBuild == ApiInit /\ FinIdle /\ BrIdle /\ JwtIdle /\ ExtIdle /\ BuildInit /\ GotoIdle /\ LogIdle
    /\ StartIdle /\ WalkIdle

SpecBuild == InitBuild /\ [][BuildNext]_vars

InitGoto == ApiInit /\ FinIdle /\ JwtIdle /\ ExtIdle /\ BuildIdle /\ GotoInit /\ LogIdle
    /\ StartIdle /\ WalkIdle

SpecGoto == InitGoto /\ [][GotoNext]_vars

InitLog == ApiInit /\ FinIdle /\ BrIdle /\ JwtIdle /\ ExtIdle /\ BuildIdle /\ GotoIdle /\ LogInit
    /\ StartIdle /\ WalkIdle

SpecLog == InitLog /\ [][LogNext]_vars

InitStartup == ApiInit /\ FinIdle /\ BrIdle /\ JwtIdle /\ ExtIdle /\ BuildIdle /\ GotoIdle
    /\ LogIdle /\ StartInit /\ WalkIdle

InitWalk == ApiInit /\ FinIdle /\ BrIdle /\ JwtIdle /\ ExtIdle /\ BuildIdle /\ GotoIdle
    /\ LogIdle /\ StartIdle /\ WalkInit

SpecStartup == InitStartup /\ [][StartNext]_vars

SpecWalk == InitWalk /\ [][WalkNext]_vars

\* every iteration of the walk is bounded by its timeouts, so the loop goes on
SpecWalkFair == SpecWalk /\ WF_vars(WalkNext)

====
